---- MODULE Spec2Model ----
(***************************************************************************)
(* A model of base_client_api: BaseClientApi.request (the semaphore gate,  *)
(* the HTTP call, the status check and the tenacity retry decorator), the  *)
(* gather of a batch of request tasks as the callers in src/tests do it,   *)
(* and BaseClientApi.process_results.                                      *)
(***************************************************************************)
EXTENDS Integers, Sequences, FiniteSets, TLC

(***************************************************************************)
(* Bounds of the model.                                                    *)
(***************************************************************************)
\* the largest batch of concurrently started request tasks
MaxTasks == 2
\* the Options.SEM value of the configuration under which the client runs
CfgSEM == 1

(***************************************************************************)
(* Program constants.                                                      *)
(***************************************************************************)
\* BaseClientApi.SEM, the limit used when the configuration has no Options.SEM
SEM == 15
\* stop_after_attempt(5)
MaxAttempts == 5
\* assert not response.status > 499
MaxOkStatus == 499

Tasks == 1..MaxTasks

\* the verbs request() has a branch for
METHODS == {"get", "patch", "post", "put", "delete"}
\* the methods the callers of the model pass: one served verb, one that is not
MethodInputs == {"get", "head"}

\* statuses the transport answers with
Statuses == {200, 300, 404, 499, 500, 503}
\* aiohttp.ClientError and its subclasses: connection reset (ClientOSError),
\* DNS / connect failure (ClientConnectorError)
ClientErrors == {"ClientError", "ClientOSError", "ClientConnectorError"}
\* what session.get/post/... raises: a ClientError subclass, or
\* asyncio.TimeoutError when ClientTimeout(total=300) expires
TransportExceptions == {"ClientOSError", "ClientConnectorError", "TimeoutError"}

NoStatus == 0
NoExc == "none"
Response(s) == [status |-> s, exc |-> NoExc]
Raised(e) == [status |-> NoStatus, exc |-> e]
NoOutcome == [status |-> NoStatus, exc |-> NoExc]
NoId == 0
NoResult == [request_id |-> NoId, response |-> NoStatus]
\* every way one awaited HTTP call can end
Outcomes == {Response(s) : s \in Statuses} \cup {Raised(e) : e \in TransportExceptions}
\* the answers a scripted transport stub gives
StubOutcomes == {Response(200), Response(404), Response(503),
                 Raised("ClientConnectorError"), Raised("TimeoutError")}

VARIABLES
    cfg,        \* cfg['Options']['SEM'], or 0 when the configuration has none
    sem,        \* self.sem._value: the free slots of the semaphore
    method,     \* method[t]: the method argument of task t's request() call
    pc,         \* pc[t]: where task t's request() call is
    attempt,    \* attempt[t]: tenacity's retry_state.attempt_number
    calls,      \* calls[t]: HTTP calls task t has issued
    last,       \* last[t]: how the attempt of t that ended last ended, until the next begins
    request_id, \* request_id[t]: the request_id argument of task t (NoId: none given)
    result,     \* result[t]: the dict request() returned: request_id and response status
    err,        \* err[t]: the exception that left request()
    wait,       \* wait[t]: the backoff sleep task t is in, in hundredths of a time-unit
    events,     \* events[t]: the log events tenacity has emitted for task t's call
    stub,       \* the script of a transport stub (<<>>: a real transport)
    caller,     \* the caller awaiting asyncio.gather
    scope,      \* where the caller is: in the body of async with ("body"), or past it
    session,    \* the session.close() calls made: 0 while the session is open
    data,       \* Results.data as the caller builds it from gather's return
    results,    \* the Results object handed to process_results: data, success, failure
    args,       \* the other arguments of the process_results call
    prpc,       \* where the process_results call is: "idle", "call", "returned", "raised"
    prexc,      \* the exception that left process_results
    contrib,    \* contrib[i]: the records response i added to <<success, failure>>
    cleaned,    \* the directions of the Results.cleanup calls made so far
    password    \* the generate_password call: its arguments, and how it ended

reqVars ==
    <<cfg, sem, method, request_id, pc, attempt, calls, last, result, err, stub, caller, data,
      scope, session, wait, events>>

prVars == <<results, args, prpc, prexc, contrib, cleaned>>

utilVars == <<password>>

vars == <<reqVars, prVars, utilVars>>

(***************************************************************************)
(* process_config: the semaphore.                                          *)
(***************************************************************************)
\* try: sem = cfg_data['Options']['SEM'] except (KeyError, TypeError): sem = self.SEM
process_config(c) == IF c = 0 THEN SEM ELSE c

\* a gate that admits a task although no slot is free
lockedNever(s) == FALSE
\* a gate that keeps its last slot back
lockedAtOne(s) == s <= 1
\* async with self.sem: acquire() waits while no slot is free
locked(s) == s <= 0
\* async with self.sem: __aenter__ takes a slot
acquire(s) == s - 1
\* an exit of the block that keeps the slot
releaseLeaks(s) == s
\* async with self.sem: __aexit__ gives the slot back, however the block is left
release(s) == s + 1

(***************************************************************************)
(* The tenacity decorator of request().                                    *)
(***************************************************************************)
\* a predicate that retries whatever the attempt raised
retry_if_exception_typeAny(e) == TRUE
\* retry=retry_if_exception_type(aio.ClientError)
retry_if_exception_type(e) == e \in ClientErrors
\* a stop that never comes
stop_after_attemptNever(n) == FALSE
\* a stop one attempt early
stop_after_attemptEarly(n) == n >= MaxAttempts - 1
\* stop=stop_after_attempt(5)
stop_after_attempt(n) == n >= MaxAttempts
\* what tenacity does with an attempt that raised e as attempt number n:
\* re-raise e itself, raise RetryError (reraise is not set), or sleep and retry
retry(n, e) ==
    IF ~retry_if_exception_type(e) THEN "reraise"
    ELSE IF stop_after_attempt(n) THEN "RetryError"
    ELSE "sleep"

\* wait=wait_random_exponential(multiplier=1.25, min=3, max=60), in hundredths
\* of a time-unit
WaitMultiplier == 125
WaitMin == 300
WaitMax == 6000
\* no backoff sleep is under way
NoWait == 0 - 1
\* no generate_password call is made
NoPassword ==
    [pc |-> "none", min_len |-> 0, max_length |-> 0, optimize |-> FALSE,
     length |-> 0, pwd |-> <<>>, exc |-> NoExc, failed |-> 0]
\* the sleeps the model draws: none at all, and the widest window's upper end
WaitSamples == {0, 2000}

\* wait_exponential: max(max(0, min), min(multiplier * 2 ** e, max)) for the
\* attempt number n; e is n in tenacity before 8.0 and n - 1 from then on
wait_exponential(n) ==
    LET clamp(x) == IF x > WaitMax THEN WaitMax ELSE IF x < WaitMin THEN WaitMin ELSE x
    IN {clamp(WaitMultiplier * 2 ^ (n - 1)), clamp(WaitMultiplier * 2 ^ n)}

\* wait_random_exponential: random.uniform(0, high) with high the value of
\* wait_exponential (tenacity draws from 0; its later releases from min)
wait_random_exponential(n) ==
    {w \in WaitSamples : \E high \in wait_exponential(n) : 0 <= w /\ w <= high}

\* the log events of a call: before_sleep_log(logger, WARNING) and
\* after_log(logger, DEBUG)
NoEvents == [before_sleep |-> 0, after |-> 0]
\* after=after_log(...): tenacity calls it for an attempt that is to be
\* retried, before it looks at stop
after_log(ev) == [ev EXCEPT !.after = @ + 1]
\* a before_sleep that logs nothing
before_sleep_logSilent(ev) == ev
\* before_sleep=before_sleep_log(...): called once the wait is drawn, before
\* the sleep
before_sleep_log(ev) == [ev EXCEPT !.before_sleep = @ + 1]

\* a status check that lets 500 pass
StatusCheckFailsLate(s) == s > MaxOkStatus + 1
\* a status check that fails 4xx responses too
StatusCheckFails4xx(s) == s > 399
\* assert not response.status > 499
StatusCheckFails(s) == s > MaxOkStatus

\* the exception an attempt ends with, NoExc when it returns its response
AttemptException(o) ==
    IF o.exc # NoExc THEN o.exc
    ELSE IF StatusCheckFails(o.status) THEN "ClientError"
    ELSE NoExc

\* uuid4().hex: an id no caller passes and no other call draws
uuid4(t, n) == MaxTasks * n + t
\* if not request_id: request_id = uuid4().hex
RequestId(t, n) == IF request_id[t] = NoId THEN uuid4(t, n) ELSE request_id[t]

\* a scripted stub answers attempt n with stub[n]; a real transport with anything
StubAnswers(n, o) == stub = <<>> \/ (n \in DOMAIN stub /\ stub[n] = o)

InBatch(t) == pc[t] # "none"
Holding(t) == pc[t] \in {"entered", "transport"}
Finished(t) == pc[t] \in {"returned", "raised", "cancelled"}
Batch == {t \in Tasks : InBatch(t)}

\* a gather that returns once every task is done, exceptions among the results
gatherReturnsExceptions == \A t \in Batch : Finished(t)
\* asyncio.gather returns once every task has returned its result
gatherReturns == \A t \in Batch : pc[t] = "returned"
\* asyncio.gather (return_exceptions is not set) raises the first exception of a task
gatherRaises == \E t \in Batch : pc[t] \in {"raised", "cancelled"}

(***************************************************************************)
(* Initial states.                                                         *)
(***************************************************************************)
\* no process_results call is under way
NoProcessResults ==
    /\ results = [data |-> <<>>, has_data |-> FALSE, success |-> <<>>, failure |-> <<>>]
    /\ args = <<>>
    /\ prpc = "idle"
    /\ prexc = NoExc
    /\ contrib = <<>>
    /\ cleaned = <<>>

InitTasks(n) ==
    /\ pc = [t \in Tasks |-> IF t <= n THEN "acquire" ELSE "none"]
    /\ attempt = [t \in Tasks |-> 1]
    /\ calls = [t \in Tasks |-> 0]
    /\ last = [t \in Tasks |-> NoOutcome]
    /\ result = [t \in Tasks |-> NoResult]
    /\ err = [t \in Tasks |-> NoExc]
    /\ wait = [t \in Tasks |-> NoWait]
    /\ events = [t \in Tasks |-> NoEvents]
    /\ password = NoPassword
    /\ caller = "gather"
    /\ data = <<>>
    /\ scope = "body"
    /\ session = 0

\* a client built with Options.SEM = CfgSEM or without Options.SEM, and a batch
\* of 1..MaxTasks tasks created before the caller awaits gather
Init ==
    /\ cfg \in {0, CfgSEM}
    /\ sem = process_config(cfg)
    /\ method \in [Tasks -> MethodInputs]
    /\ request_id \in {[t \in Tasks |-> NoId], [t \in Tasks |-> t]}
    /\ stub = <<>>
    /\ \E n \in Tasks : InitTasks(n)
    /\ NoProcessResults

\* one request against a transport stub that answers attempt k with stub[k]
InitRetry ==
    /\ cfg = CfgSEM
    /\ sem = process_config(cfg)
    /\ method \in [Tasks -> MethodInputs]
    /\ \A t \in Tasks : t > 1 => method[t] = "get"
    /\ request_id = [t \in Tasks |-> NoId]
    /\ stub \in [1..MaxAttempts -> StubOutcomes]
    /\ InitTasks(1)
    /\ NoProcessResults

(***************************************************************************)
(* request()                                                               *)
(***************************************************************************)
\* async with self.sem: __aenter__ takes a slot once one is free
Acquire(t) ==
    /\ pc[t] = "acquire"
    /\ ~locked(sem)
    /\ sem' = acquire(sem)
    /\ pc' = [pc EXCEPT ![t] = "entered"]
    /\ UNCHANGED <<cfg, method, request_id, attempt, calls, last, result, err, stub, caller, data, prVars, utilVars, scope, session, wait, events>>

\* if method == 'get': response = await self.session.get(...)  (and the
\* other four verbs): the HTTP call is issued and awaited
HttpCall(t) ==
    /\ pc[t] = "entered"
    /\ method[t] \in METHODS
    /\ session = 0
    /\ pc' = [pc EXCEPT ![t] = "transport"]
    /\ calls' = [calls EXCEPT ![t] = @ + 1]
    /\ UNCHANGED <<cfg, sem, method, request_id, attempt, last, result, err, stub, caller, data, prVars, utilVars, scope, session, wait, events>>

\* else: raise NotImplementedError; it leaves the async with block (release)
\* and tenacity re-raises it: it is no ClientError
RaiseNotImplemented(t) ==
    /\ pc[t] = "entered"
    /\ method[t] \notin METHODS
    /\ sem' = release(sem)
    /\ retry(attempt[t], "NotImplementedError") = "reraise"
    /\ pc' = [pc EXCEPT ![t] = "raised"]
    /\ err' = [err EXCEPT ![t] = "NotImplementedError"]
    /\ UNCHANGED <<cfg, method, request_id, attempt, calls, last, result, stub, caller, data, prVars, utilVars, scope, session, wait, events>>

\* the awaited call ended as o and the attempt raises nothing:
\* return {'request_id': request_id, 'response': response}
ReturnResponse(t) ==
    /\ pc[t] = "transport"
    /\ \E o \in Outcomes :
        /\ StubAnswers(attempt[t], o)
        /\ AttemptException(o) = NoExc
        /\ last' = [last EXCEPT ![t] = o]
        /\ result' = [result EXCEPT ![t] =
                         [request_id |-> RequestId(t, attempt[t]), response |-> o.status]]
    /\ sem' = release(sem)
    /\ pc' = [pc EXCEPT ![t] = "returned"]
    /\ UNCHANGED <<cfg, method, request_id, attempt, calls, err, stub, caller, data, prVars, utilVars, scope, session, wait, events>>

\* the attempt raised (the call itself, or raise aio.ClientError after the
\* status check), the async with block released the slot, and tenacity sleeps
\* before the next attempt: before_sleep, prepare_for_next_attempt, sleep
RetrySleep(t) ==
    /\ pc[t] = "transport"
    /\ \E o \in Outcomes :
        /\ StubAnswers(attempt[t], o)
        /\ AttemptException(o) # NoExc
        /\ retry(attempt[t], AttemptException(o)) = "sleep"
        /\ last' = [last EXCEPT ![t] = o]
    /\ sem' = release(sem)
    /\ \E w \in wait_random_exponential(attempt[t]) : wait' = [wait EXCEPT ![t] = w]
    /\ events' = [events EXCEPT ![t] = before_sleep_log(after_log(@))]
    /\ pc' = [pc EXCEPT ![t] = "backoff"]
    /\ attempt' = [attempt EXCEPT ![t] = @ + 1]
    /\ UNCHANGED <<cfg, method, request_id, calls, result, err, stub, caller, data, prVars, utilVars, scope, session>>

\* the attempt raised and tenacity does not retry: it re-raises the exception
\* (not a ClientError) or raises RetryError (attempts exhausted)
RaiseOut(t) ==
    /\ pc[t] = "transport"
    /\ \E o \in Outcomes :
        /\ StubAnswers(attempt[t], o)
        /\ AttemptException(o) # NoExc
        /\ retry(attempt[t], AttemptException(o)) # "sleep"
        /\ last' = [last EXCEPT ![t] = o]
        /\ err' = [err EXCEPT ![t] =
                      IF retry(attempt[t], AttemptException(o)) = "RetryError"
                      THEN "RetryError" ELSE AttemptException(o)]
        /\ events' = [events EXCEPT ![t] =
                         IF retry(attempt[t], AttemptException(o)) = "RetryError"
                         THEN after_log(@) ELSE @]
    /\ sem' = release(sem)
    /\ pc' = [pc EXCEPT ![t] = "raised"]
    /\ UNCHANGED <<cfg, method, request_id, attempt, calls, result, stub, caller, data, prVars, utilVars, scope, session, wait>>

\* a retry that does not pass the gate again: the sleep is over and the next
\* attempt takes a slot whether one is free or not
WakeHolding(t) ==
    /\ pc[t] = "backoff"
    /\ pc' = [pc EXCEPT ![t] = "entered"]
    /\ last' = [last EXCEPT ![t] = NoOutcome]
    /\ wait' = [wait EXCEPT ![t] = NoWait]
    /\ sem' = acquire(sem)
    /\ UNCHANGED <<cfg, method, request_id, attempt, calls, result, err, stub, caller, data, prVars, utilVars, scope, session, events>>

\* the backoff sleep is over: request() is called again
Wake(t) ==
    /\ pc[t] = "backoff"
    /\ pc' = [pc EXCEPT ![t] = "acquire"]
    /\ last' = [last EXCEPT ![t] = NoOutcome]
    /\ wait' = [wait EXCEPT ![t] = NoWait]
    /\ UNCHANGED <<cfg, sem, method, request_id, attempt, calls, result, err, stub, caller, data, prVars, utilVars, scope, session, events>>

\* the task is cancelled at one of its awaits: CancelledError leaves the
\* async with block when it is thrown into the pending HTTP call, and
\* tenacity re-raises it
Cancel(t) ==
    /\ pc[t] \in {"acquire", "transport", "backoff"}
    /\ sem' = IF Holding(t) THEN release(sem) ELSE sem
    /\ retry(attempt[t], "CancelledError") = "reraise"
    /\ pc' = [pc EXCEPT ![t] = "cancelled"]
    /\ err' = [err EXCEPT ![t] = "CancelledError"]
    /\ wait' = [wait EXCEPT ![t] = NoWait]
    /\ UNCHANGED <<cfg, method, request_id, attempt, calls, last, result, stub, caller, data, prVars, utilVars, scope, session, events>>

(***************************************************************************)
(* The caller: results = Results(data=await asyncio.gather of the tasks)   *)
(***************************************************************************)
\* every task returned: gather returns the results in the order of the tasks
GatherReturn ==
    /\ caller = "gather"
    /\ gatherReturns
    /\ caller' = "results"
    /\ data' = [i \in Batch |-> result[i]]
    /\ UNCHANGED <<cfg, sem, method, request_id, pc, attempt, calls, last, result, err, stub, prVars, utilVars, scope, session, wait, events>>

\* a task raised: gather raises its exception to the caller at once and leaves
\* the other tasks running
GatherRaise ==
    /\ caller = "gather"
    /\ gatherRaises
    /\ caller' = "raised"
    /\ UNCHANGED <<cfg, sem, method, request_id, pc, attempt, calls, last, result, err, stub, data, prVars, utilVars, scope, session, wait, events>>

Next ==
    \/ \E t \in Tasks : Acquire(t)
    \/ \E t \in Tasks : HttpCall(t)
    \/ \E t \in Tasks : RaiseNotImplemented(t)
    \/ \E t \in Tasks : ReturnResponse(t)
    \/ \E t \in Tasks : RetrySleep(t)
    \/ \E t \in Tasks : RaiseOut(t)
    \/ \E t \in Tasks : Wake(t)
    \/ \E t \in Tasks : Cancel(t)
    \/ GatherReturn
    \/ GatherRaise

Spec == Init /\ [][Next]_vars

SpecRetry == InitRetry /\ [][Next]_vars

(***************************************************************************)
(* The end of the scope: async with BaseClientApi(...) as bac.             *)
(***************************************************************************)
\* an __aexit__ that closes the session only when the body raised nothing
aexitUnlessRaised(closes, exc_type) == IF exc_type = NoExc THEN closes + 1 ELSE closes
\* __aexit__(exc_type, exc_val, exc_tb): await self.session.close(), whatever
\* the body raised
aexit(closes, exc_type) == closes + 1

\* the body of async with is over (gather returned, or raised the exception
\* of a task): __aexit__ runs once; it cancels no task
ScopeExit ==
    /\ scope = "body"
    /\ caller \in {"results", "raised"}
    /\ session' = aexit(session, IF caller = "raised" THEN "raised" ELSE NoExc)
    /\ scope' = "exited"
    /\ UNCHANGED <<cfg, sem, method, request_id, pc, attempt, calls, last, result, err, stub,
                   caller, data, prVars, utilVars, wait, events>>

\* response = await self.session.get(...) on a closed session: aiohttp raises
\* RuntimeError('Session is closed') before anything is sent; it leaves the
\* async with block (release) and tenacity re-raises it: it is no ClientError
RaiseSessionClosed(t) ==
    /\ pc[t] = "entered"
    /\ method[t] \in METHODS
    /\ session > 0
    /\ sem' = release(sem)
    /\ retry(attempt[t], "RuntimeError") = "reraise"
    /\ pc' = [pc EXCEPT ![t] = "raised"]
    /\ err' = [err EXCEPT ![t] = "RuntimeError"]
    /\ UNCHANGED <<cfg, method, request_id, attempt, calls, last, result, stub, caller, data,
                   prVars, utilVars, scope, session, wait, events>>

\* a client with Options.SEM = CfgSEM and a batch of 1..MaxTasks tasks
InitScope ==
    /\ cfg = CfgSEM
    /\ sem = process_config(cfg)
    /\ method \in [Tasks -> MethodInputs]
    /\ request_id = [t \in Tasks |-> NoId]
    /\ stub = <<>>
    /\ \E n \in Tasks : InitTasks(n)
    /\ NoProcessResults

NextScope ==
    \/ Next
    \/ ScopeExit
    \/ \E t \in Tasks : RaiseSessionClosed(t)

SpecScope == InitScope /\ [][NextScope]_vars

(***************************************************************************)
(* The gate under steady load: requests keep arriving.                     *)
(***************************************************************************)
\* asyncio.create_task(bac.request(...)): the caller starts a new request
\* once an earlier one is done
Arrive(t) ==
    /\ Finished(t)
    /\ pc' = [pc EXCEPT ![t] = "acquire"]
    /\ attempt' = [attempt EXCEPT ![t] = 1]
    /\ calls' = [calls EXCEPT ![t] = 0]
    /\ last' = [last EXCEPT ![t] = NoOutcome]
    /\ result' = [result EXCEPT ![t] = NoResult]
    /\ err' = [err EXCEPT ![t] = NoExc]
    /\ events' = [events EXCEPT ![t] = NoEvents]
    /\ UNCHANGED <<cfg, sem, method, request_id, stub, caller, data, prVars, utilVars, scope, session, wait>>

\* the transports of the gate: a server that always answers 503, one that
\* answers 200 after two connection errors, one that always answers 200
GateStubs ==
    { [k \in 1..MaxAttempts |-> Response(503)],
      [k \in 1..MaxAttempts |-> IF k < 3 THEN Raised("ClientConnectorError")
                                ELSE Response(200)],
      [k \in 1..MaxAttempts |-> Response(200)] }

\* a client with Options.SEM = CfgSEM and MaxTasks requests started together,
\* the first of them possibly with a verb that request() does not serve
InitGate ==
    /\ cfg = CfgSEM
    /\ sem = process_config(cfg)
    /\ method \in [Tasks -> MethodInputs]
    /\ \A t \in Tasks : t > 1 => method[t] = "get"
    /\ request_id = [t \in Tasks |-> NoId]
    /\ stub \in GateStubs
    /\ InitTasks(MaxTasks)
    /\ NoProcessResults

NextGate ==
    \/ \E t \in Tasks : Acquire(t)
    \/ \E t \in Tasks : HttpCall(t)
    \/ \E t \in Tasks : RaiseNotImplemented(t)
    \/ \E t \in Tasks : ReturnResponse(t)
    \/ \E t \in Tasks : RetrySleep(t)
    \/ \E t \in Tasks : RaiseOut(t)
    \/ \E t \in Tasks : Wake(t)
    \/ \E t \in Tasks : Cancel(t)
    \/ \E t \in Tasks : Arrive(t)

\* the event loop runs every task that can go on, an HTTP call that was
\* issued ends (ClientTimeout), a backoff sleep ends, and the semaphore wakes
\* its waiters in the order they came (asyncio.Semaphore keeps them in a
\* deque and release() wakes the first): a waiter that finds the gate free
\* again and again is admitted. Nothing makes the caller start new requests
\* or cancel one.
FairGate ==
    \A t \in Tasks :
        /\ SF_vars(Acquire(t))
        /\ WF_vars(HttpCall(t) \/ RaiseNotImplemented(t))
        /\ WF_vars(ReturnResponse(t) \/ RetrySleep(t) \/ RaiseOut(t))
        /\ WF_vars(Wake(t))

SpecGate == InitGate /\ [][NextGate]_vars /\ FairGate

(***************************************************************************)
(* process_results: the values it handles.                                 *)
(*                                                                         *)
(* A decoded Python value is a tagged tuple: <<"dict", items>> with items  *)
(* the sequence of <<key, value>> pairs in insertion order, <<"list", s>>, *)
(* <<"int", n>>, <<"str", s>> and <<"none">>.                              *)
(***************************************************************************)
Dict(items) == <<"dict", items>>
List(s) == <<"list", s>>
Num(n) == <<"int", n>>
Str(x) == <<"str", x>>
None == <<"none">>
IsDict(v) == v[1] = "dict"
IsList(v) == v[1] = "list"
IsInt(v) == v[1] = "int"
IsStr(v) == v[1] = "str"

\* the result of a step that may raise: <<"ok", value>> or <<"raise", exception>>
Ok(v) == <<"ok", v>>
Raise(e) == <<"raise", e>>
IsOk(r) == r[1] = "ok"

\* the keys of a dict, in insertion order
Keys(d) == [i \in 1..Len(d[2]) |-> d[2][i][1]]
HasKey(d, k) == \E i \in 1..Len(d[2]) : d[2][i][1] = k
\* d[k] of a dict that has the key
Get(d, k) == d[2][CHOOSE i \in 1..Len(d[2]) : d[2][i][1] = k][2]
\* {**d, k: v}: the value of an existing key is replaced in place, a new key
\* goes to the end
Put(d, k, v) ==
    IF HasKey(d, k)
    THEN Dict([i \in 1..Len(d[2]) |-> IF d[2][i][1] = k THEN <<k, v>> ELSE d[2][i]])
    ELSE Dict(Append(d[2], <<k, v>>))
\* del d[k] of a dict that has the key
Del(d, k) == Dict(SelectSeq(d[2], LAMBDA kv : kv[1] # k))

\* the strings of the model in Python's order of str (by code point)
StringsSorted ==
    <<"", "a", "b", "docs", "error", "id", "not found", "pong", "request_id", "rid1",
      "rid2", "rid3", "rid4", "text_html", "text_plain", "token", "token_type", "x", "z">>
StrRank(x) == CHOOSE i \in 1..Len(StringsSorted) : StringsSorted[i] = x

(***************************************************************************)
(* The responses: status, Content-Type header and body as sent.            *)
(***************************************************************************)
\* no Content-Type header in response.headers
NoHeader == "(no Content-Type)"
CT_JWT == "application/jwt"
CT_JSON == "application/json; charset=utf-8"
CT_JS == "application/javascript"
CT_TEXT_JS == "text/javascript; charset=utf-8"
CT_PLAIN == "text/plain; charset=utf-8"
CT_HTML == "text/html"
CT_XML == "application/xml"
\* the Content-Types that are decoded as JSON
JsonTypes == {CT_JSON, CT_JS, CT_TEXT_JS}

\* Content-Type.startswith(prefix), for the prefixes process_results tests
StartsWith(ctype, prefix) ==
    CASE prefix = "application/jwt" -> ctype = CT_JWT
      [] prefix = "application/json" -> ctype = CT_JSON
      [] prefix = "application/javascript" -> ctype = CT_JS
      [] prefix = "text/javascript" -> ctype = CT_TEXT_JS
      [] prefix = "text/plain" -> ctype = CT_PLAIN
      [] prefix = "text/html" -> ctype = CT_HTML
      [] OTHER -> FALSE

\* bodies as sent on the wire
B_DocsTwo == "{\"docs\":[{\"id\":1},{\"id\":2}]}"
B_DocsNone == "{\"docs\":[]}"
B_DocsInt == "{\"docs\":5}"
B_Error == "{\"error\":\"not found\"}"
B_ListTwo == "[{\"id\":2},{\"id\":1}]"
B_ListNone == "[]"
B_Int == "7"
B_JsonStr == "\"pong\""
B_Pong == "pong"
B_Null == "null"
B_WithNull == "{\"x\":null,\"id\":3}"
B_Page == "<html></html>"
B_Token == "e30.e30.c2ln"
B_Nested == "{\"b\":{\"z\":1,\"a\":null,\"id\":2},\"a\":\"\"}"

\* rapidjson.loads(body): the decoded value, or JSONDecodeError
loads(body) ==
    CASE body = B_DocsTwo ->
            Ok(Dict(<< <<"docs", List(<< Dict(<< <<"id", Num(1)>> >>),
                                         Dict(<< <<"id", Num(2)>> >>) >>)>> >>))
      [] body = B_DocsNone -> Ok(Dict(<< <<"docs", List(<<>>)>> >>))
      [] body = B_DocsInt -> Ok(Dict(<< <<"docs", Num(5)>> >>))
      [] body = B_Error -> Ok(Dict(<< <<"error", Str("not found")>> >>))
      [] body = B_ListTwo ->
            Ok(List(<< Dict(<< <<"id", Num(2)>> >>), Dict(<< <<"id", Num(1)>> >>) >>))
      [] body = B_ListNone -> Ok(List(<<>>))
      [] body = B_Int -> Ok(Num(7))
      [] body = B_JsonStr -> Ok(Str("pong"))
      [] body = B_Null -> Ok(None)
      [] body = B_WithNull -> Ok(Dict(<< <<"x", None>>, <<"id", Num(3)>> >>))
      [] body = B_Nested ->
            Ok(Dict(<< <<"b", Dict(<< <<"z", Num(1)>>, <<"a", None>>, <<"id", Num(2)>> >>)>>,
                       <<"a", Str("")>> >>))
      [] OTHER -> Raise("JSONDecodeError")

\* await response.text(encoding='utf-8'): the body as it was sent
text(response) == Str(response.body)
\* await response.json(encoding='utf-8', loads=rapidjson.loads, ...)
json(response) == loads(response.body)

\* a decoding that files text/html under the key of text/plain
DecodeHtmlAsPlain(response) ==
    IF response.ctype = NoHeader THEN Ok(text(response))
    ELSE IF StartsWith(response.ctype, "application/jwt")
        THEN Ok(Dict(<< <<"token", text(response)>>, <<"token_type", Str("Bearer")>> >>))
    ELSE IF StartsWith(response.ctype, "application/json") THEN json(response)
    ELSE IF StartsWith(response.ctype, "application/javascript") THEN json(response)
    ELSE IF StartsWith(response.ctype, "text/javascript") THEN json(response)
    ELSE IF StartsWith(response.ctype, "text/plain")
        THEN Ok(Dict(<< <<"text_plain", text(response)>> >>))
    ELSE IF StartsWith(response.ctype, "text/html")
        THEN Ok(Dict(<< <<"text_plain", text(response)>> >>))
    ELSE Raise("NotImplementedError")

\* a decoding that takes application/javascript as text
DecodeJsAsText(response) ==
    IF response.ctype = NoHeader THEN Ok(text(response))
    ELSE IF StartsWith(response.ctype, "application/jwt")
        THEN Ok(Dict(<< <<"token", text(response)>>, <<"token_type", Str("Bearer")>> >>))
    ELSE IF StartsWith(response.ctype, "application/json") THEN json(response)
    ELSE IF StartsWith(response.ctype, "application/javascript") THEN Ok(text(response))
    ELSE IF StartsWith(response.ctype, "text/javascript") THEN json(response)
    ELSE IF StartsWith(response.ctype, "text/plain")
        THEN Ok(Dict(<< <<"text_plain", text(response)>> >>))
    ELSE IF StartsWith(response.ctype, "text/html")
        THEN Ok(Dict(<< <<"text_html", text(response)>> >>))
    ELSE Raise("NotImplementedError")

\* the try block of process_results that decodes a response by its
\* Content-Type; a missing header is the KeyError the except clause handles
Decode(response) ==
    IF response.ctype = NoHeader THEN Ok(text(response))
    ELSE IF StartsWith(response.ctype, "application/jwt")
        THEN Ok(Dict(<< <<"token", text(response)>>, <<"token_type", Str("Bearer")>> >>))
    ELSE IF StartsWith(response.ctype, "application/json") THEN json(response)
    ELSE IF StartsWith(response.ctype, "application/javascript") THEN json(response)
    ELSE IF StartsWith(response.ctype, "text/javascript") THEN json(response)
    ELSE IF StartsWith(response.ctype, "text/plain")
        THEN Ok(Dict(<< <<"text_plain", text(response)>> >>))
    ELSE IF StartsWith(response.ctype, "text/html")
        THEN Ok(Dict(<< <<"text_html", text(response)>> >>))
    ELSE Raise("NotImplementedError")

\* a wrapping that keeps the decoded string in place of the body text
StrToTextPlainDecoded(response, decoded) ==
    IF IsStr(decoded) THEN Dict(<< <<"text_plain", decoded>> >>) ELSE decoded
\* if type(response) == str: response = {'text_plain': await ...text()}
StrToTextPlain(response, decoded) ==
    IF IsStr(decoded) THEN Dict(<< <<"text_plain", text(response)>> >>) ELSE decoded

(***************************************************************************)
(* process_results: the loop over results.data.                            *)
(***************************************************************************)
\* an argument that is None
NoKey == "(None)"

\* {**r, **rid} with rid = {'request_id': result['request_id']}
WithRid(r, rid) == Put(r, "request_id", rid)
AllDicts(s) == \A i \in 1..Len(s) : IsDict(s[i])
\* [{**r, **rid} for r in d], the records last first
MapRidReversed(s, rid) == [i \in 1..Len(s) |-> WithRid(s[Len(s) + 1 - i], rid)]
\* [{**r, **rid} for r in d]
MapRid(s, rid) == [i \in 1..Len(s) |-> WithRid(s[i], rid)]

\* response[data_key]: KeyError of a dict without the key (None is never a
\* key), TypeError of a list, an int or None
Subscript(response, data_key) ==
    IF ~IsDict(response) THEN Raise("TypeError")
    ELSE IF data_key # NoKey /\ HasKey(response, data_key)
        THEN Ok(Get(response, data_key))
    ELSE Raise("KeyError")

\* except (KeyError, TypeError): a bare list, a bare int, or the mapping itself
SuccessFallback(response, rid) ==
    IF IsList(response)
    THEN IF AllDicts(response[2]) THEN Ok(List(MapRid(response[2], rid)))
         ELSE Raise("TypeError")
    ELSE IF IsInt(response) THEN Ok(List(<<response>>))
    ELSE IF IsDict(response) THEN Ok(WithRid(response, rid))
    ELSE Raise("TypeError")

\* the try block for 200 <= status <= 299: the value of data
SuccessData(response, data_key, rid) ==
    LET d == Subscript(response, data_key) IN
    IF IsOk(d)
    THEN IF IsList(d[2])
         THEN IF AllDicts(d[2][2]) THEN Ok(List(MapRid(d[2][2], rid)))
              ELSE SuccessFallback(response, rid)
         ELSE Ok(response)
    ELSE SuccessFallback(response, rid)

\* a failure branch that appends the response without the request id
FailureRecordBare(response, rid) == response
\* results.failure.append({**response, **rid}), or response itself on TypeError
FailureRecord(response, rid) ==
    IF IsDict(response) THEN WithRid(response, rid) ELSE response

\* a success branch that misses the last 2xx status
IsSuccessStatusNarrow(status) == 200 <= status /\ status < 299
\* a status of the success branch / of the failure branch
IsSuccessStatus(status) == 200 <= status /\ status <= 299
\* a failure branch that also takes the informational statuses
IsFailureStatusLow(status) == status >= 100 /\ ~(200 <= status /\ status <= 299)
IsFailureStatus(status) == status > 299

\* one pass of the for loop: decode result['response'], then extend or append
\* to success, or append to failure; st.exc is the exception that ends the call
Partition(st, res, data_key) ==
    LET rid == res.request_id
        status == res.response.status
        dec == Decode(res.response)
    IN  IF ~IsOk(dec) THEN [st EXCEPT !.exc = dec[2]]
        ELSE LET response == StrToTextPlain(res.response, dec[2]) IN
            IF IsSuccessStatus(status)
            THEN LET got == SuccessData(response, data_key, rid) IN
                 IF ~IsOk(got) THEN [st EXCEPT !.exc = got[2]]
                 ELSE IF IsList(got[2])
                 THEN [st EXCEPT !.success = @ \o got[2][2],
                                 !.contrib = Append(@, <<Len(got[2][2]), 0>>)]
                 ELSE [st EXCEPT !.success = Append(@, got[2]),
                                 !.contrib = Append(@, <<1, 0>>)]
            ELSE IF IsFailureStatus(status)
            THEN [st EXCEPT !.failure = Append(@, FailureRecord(response, rid)),
                            !.contrib = Append(@, <<0, 1>>)]
            ELSE [st EXCEPT !.contrib = Append(@, <<0, 0>>)]

\* for result in results.data, from the i-th on; each pass works on the
\* state the pass before it left
RECURSIVE Loop(_, _, _, _)
Loop(st, rdata, i, data_key) ==
    IF i > Len(rdata) \/ st.exc # NoExc THEN st
    ELSE CHOOSE out \in {Loop(s, rdata, i + 1, data_key) :
                            s \in {Partition(st, rdata[i], data_key)}} : TRUE

(***************************************************************************)
(* process_results: cleanup, sort, removal of the request ids.             *)
(***************************************************************************)
\* d.items() as they are, in the order the dict has them
ItemsAsGiven(items) == items

\* sorted(d.items()): the items by key; the keys of a dict differ, so an
\* item's place is one more than the number of keys before its own
SortedItems(items) ==
    LET place(i) == Cardinality({j \in 1..Len(items) :
                                    StrRank(items[j][1]) < StrRank(items[i][1])}) + 1
    IN [p \in 1..Len(items) |-> items[CHOOSE i \in 1..Len(items) : place(i) = p]]

\* {k: v for k, v in rec.items() if v is not None}: a filter that drops every
\* falsy value ('', 0, [], {}) as well; the code tests for None alone
KeptTruthy(items) ==
    SelectSeq(items, LAMBDA kv : kv[2] \notin {None, Str(""), Num(0), List(<<>>), Dict(<<>>)})

\* {k: v for k, v in rec.items() if v is not None}
Kept(items) ==
    SelectSeq(items, LAMBDA kv : kv[2] # None)

\* dict(sorted({k: v for k, v in rec.items() if v is not None}.items()))
CleanRecord(rec) ==
    Dict(SortedItems(Kept(rec[2])))

\* if cleanup: del results.data; results.success = [... for rec in results.success]
\* rec.items() of an int is an AttributeError
Cleanup(st) ==
    IF AllDicts(st.success)
    THEN [st EXCEPT !.has_data = FALSE,
                    !.success = [i \in 1..Len(st.success) |-> CleanRecord(st.success[i])]]
    ELSE [st EXCEPT !.has_data = FALSE, !.exc = "AttributeError"]

\* sort_order.lower()
lower(x) ==
    CASE x = "DESC" -> "desc"
      [] x = "Desc" -> "desc"
      [] x = "ASC" -> "asc"
      [] OTHER -> x

\* the keys list.sort can order: all ints or all strs; a comparison of any
\* other pair of keys is a TypeError (keys that are lists do not occur)
Orderable(keys) ==
    \/ Len(keys) <= 1
    \/ \A i \in 1..Len(keys) : IsInt(keys[i])
    \/ \A i \in 1..Len(keys) : IsStr(keys[i])
Rank(v) == IF IsInt(v) THEN v[2] ELSE StrRank(v[2])
\* x sorts strictly before y
Before(x, y, reverse) == IF reverse THEN Rank(y) < Rank(x) ELSE Rank(x) < Rank(y)

\* the place of element i after the sort: behind the elements that sort
\* strictly before it and behind the equal ones that stood before it (the
\* sort is stable, also reversed)
Place(keys, i, reverse) ==
    Cardinality({j \in 1..Len(keys) :
                    \/ Before(keys[j], keys[i], reverse)
                    \/ ~Before(keys[i], keys[j], reverse) /\ j < i}) + 1

\* list.sort(key=..., reverse=...) of s with the keys given; a list of one
\* element is sorted without a comparison
SortByKeys(s, keys, reverse) ==
    IF Len(s) <= 1 THEN s
    ELSE [p \in 1..Len(s) |-> s[CHOOSE i \in 1..Len(s) : Place(keys, i, reverse) = p]]

\* k[sort_field] of every record can be taken
KeyErrorAt(s, sort_field) ==
    {i \in 1..Len(s) : ~IsDict(s[i]) \/ ~HasKey(s[i], sort_field)}

\* if sort_field: results.success.sort(key=lambda k: k[sort_field], reverse=...)
\* elif sort_order: results.success.sort(reverse=...)
\* an exception of the key function or of a comparison leaves the call
Sort(st, sort_field, sort_order) ==
    LET order == IF sort_order = NoKey THEN NoKey ELSE lower(sort_order)
        reverse == order = "desc"
        s == st.success
    IN  IF sort_field # NoKey
        THEN IF KeyErrorAt(s, sort_field) # {}
             THEN LET first == CHOOSE i \in KeyErrorAt(s, sort_field) :
                                  \A k \in KeyErrorAt(s, sort_field) : i <= k
                  IN [st EXCEPT !.exc = IF IsDict(s[first]) THEN "KeyError" ELSE "TypeError"]
             ELSE LET keys == [i \in 1..Len(s) |-> Get(s[i], sort_field)] IN
                  IF Orderable(keys) THEN [st EXCEPT !.success = SortByKeys(s, keys, reverse)]
                  ELSE [st EXCEPT !.exc = "TypeError"]
        ELSE IF order # NoKey
        THEN IF Orderable(s) THEN [st EXCEPT !.success = SortByKeys(s, s, reverse)]
             ELSE [st EXCEPT !.exc = "TypeError"]
        ELSE st

\* a removal of the request ids that goes through failure as well
RemoveRequestIdEverywhere(st) ==
    LET s == st.success
        f == st.failure
    IN [st EXCEPT !.success = [i \in 1..Len(s) |->
                                  IF IsDict(s[i]) THEN Del(s[i], "request_id") ELSE s[i]],
                  !.failure = [i \in 1..Len(f) |->
                                  IF IsDict(f[i]) THEN Del(f[i], "request_id") ELSE f[i]]]

\* for result in results.success: if not type(result) is int: del result['request_id']
\* a record without the key is a KeyError, after the records before it lost theirs
RemoveRequestId(st) ==
    LET s == st.success
        bad == {i \in 1..Len(s) : IsDict(s[i]) /\ ~HasKey(s[i], "request_id")}
        stop == IF bad = {} THEN Len(s) + 1
                ELSE CHOOSE i \in bad : \A k \in bad : i <= k
    IN [st EXCEPT !.success = [i \in 1..Len(s) |->
                                  IF i < stop /\ IsDict(s[i]) THEN Del(s[i], "request_id")
                                  ELSE s[i]],
                  !.exc = IF bad = {} THEN NoExc ELSE "KeyError"]

\* a process_results that post-processes backwards: removal of the request
\* ids, then the sort, then cleanup
process_resultsBackwards(r, a) ==
    LET st0 == [success |-> r.success, failure |-> r.failure, has_data |-> r.has_data,
                exc |-> NoExc, contrib |-> <<>>]
    IN CHOOSE st4 \in
        { IF st3.exc = NoExc /\ a.cleanup THEN Cleanup(st3) ELSE st3 :
          st3 \in { IF st2.exc = NoExc THEN Sort(st2, a.sort_field, a.sort_order) ELSE st2 :
          st2 \in { IF st1.exc = NoExc /\ a.remove_request_id THEN RemoveRequestId(st1) ELSE st1 :
          st1 \in { Loop(st0, r.data, 1, a.data_key) } } } } : TRUE

\* process_results(results, data_key, cleanup, sort_field, sort_order, remove_request_id):
\* the loop (st1), cleanup (st2), sort (st3), removal of the ids (st4); a step
\* is skipped once an exception has ended the call
process_results(r, a) ==
    LET st0 == [success |-> r.success, failure |-> r.failure, has_data |-> r.has_data,
                exc |-> NoExc, contrib |-> <<>>]
    IN CHOOSE st4 \in
        { IF st3.exc = NoExc /\ a.remove_request_id THEN RemoveRequestId(st3) ELSE st3 :
          st3 \in { IF st2.exc = NoExc THEN Sort(st2, a.sort_field, a.sort_order) ELSE st2 :
          st2 \in { IF st1.exc = NoExc /\ a.cleanup THEN Cleanup(st1) ELSE st1 :
          st1 \in { Loop(st0, r.data, 1, a.data_key) } } } } : TRUE

(***************************************************************************)
(* The process_results calls of the model.                                 *)
(***************************************************************************)
\* the largest number of responses in results.data
MaxBatch == 2

Resp(status, ctype, body) == [status |-> status, ctype |-> ctype, body |-> body]
\* the responses a batch is made of
ResponseInputs ==
    { Resp(200, CT_JSON, B_DocsTwo), Resp(200, CT_JSON, B_DocsNone),
      Resp(200, CT_JSON, B_DocsInt), Resp(299, CT_TEXT_JS, B_ListTwo),
      Resp(200, CT_JS, B_ListNone), Resp(200, CT_JSON, B_Int),
      Resp(200, CT_PLAIN, B_Pong), Resp(200, CT_JSON, B_JsonStr),
      Resp(200, NoHeader, B_Pong), Resp(200, CT_XML, B_Page),
      Resp(200, CT_JSON, B_Pong), Resp(200, CT_JSON, B_Null),
      Resp(200, CT_JWT, B_Token), Resp(200, CT_JSON, B_WithNull),
      Resp(404, CT_JSON, B_Error), Resp(300, CT_HTML, B_Page),
      Resp(503, CT_JSON, B_ListTwo), Resp(100, CT_JSON, B_DocsTwo),
      Resp(404, CT_XML, B_Page), Resp(404, CT_JSON, B_Pong) }

\* the request ids of the results, by their place in results.data
RequestIds == <<"rid1", "rid2", "rid3", "rid4">>

\* the arguments of the calls
ArgInputs ==
    [data_key : {NoKey, "docs"}, cleanup : BOOLEAN, sort_field : {NoKey, "id"},
     sort_order : {NoKey, "asc", "DESC"}, remove_request_id : BOOLEAN]

\* no request is under way: the caller holds what gather returned
NoRequests ==
    /\ cfg = 0
    /\ sem = process_config(cfg)
    /\ method = [t \in Tasks |-> "get"]
    /\ request_id = [t \in Tasks |-> NoId]
    /\ stub = <<>>
    /\ pc = [t \in Tasks |-> "none"]
    /\ attempt = [t \in Tasks |-> 1]
    /\ calls = [t \in Tasks |-> 0]
    /\ last = [t \in Tasks |-> NoOutcome]
    /\ result = [t \in Tasks |-> NoResult]
    /\ err = [t \in Tasks |-> NoExc]
    /\ wait = [t \in Tasks |-> NoWait]
    /\ events = [t \in Tasks |-> NoEvents]
    /\ caller = "results"
    /\ data = <<>>
    /\ scope = "body"
    /\ session = 0

\* a fresh Results around 1..MaxBatch gathered results, and the arguments
InitPR ==
    /\ NoRequests
    /\ password = NoPassword
    /\ \E n \in 1..MaxBatch : \E rs \in [1..n -> ResponseInputs] :
          results = [data |-> [i \in 1..n |->
                                  [request_id |-> Str(RequestIds[i]), response |-> rs[i]]],
                     has_data |-> TRUE, success |-> <<>>, failure |-> <<>>]
    /\ args \in ArgInputs
    /\ prpc = "call"
    /\ prexc = NoExc
    /\ contrib = <<>>
    /\ cleaned = <<>>

\* await bac.process_results(results, ...): the call, to its return or exception
ProcessResults ==
    /\ prpc = "call"
    /\ LET out == process_results(results, args) IN
        /\ results' = [data |-> results.data, has_data |-> out.has_data,
                       success |-> out.success, failure |-> out.failure]
        /\ prexc' = out.exc
        /\ prpc' = IF out.exc = NoExc THEN "returned" ELSE "raised"
        /\ contrib' = out.contrib
    /\ UNCHANGED <<reqVars, utilVars, args, cleaned>>

NextPR == ProcessResults

SpecPR == InitPR /\ [][NextPR]_vars

\* the bodies of the responses
Bodies ==
    { B_DocsTwo, B_DocsNone, B_DocsInt, B_Error, B_ListTwo, B_ListNone, B_Int,
      B_JsonStr, B_Pong, B_Null, B_WithNull, B_Page, B_Token }

\* a fresh Results around two responses that carry one body with one status
\* under two Content-Types that are decoded as JSON, and the arguments
InitCT ==
    /\ NoRequests
    /\ password = NoPassword
    /\ \E body \in Bodies : \E status \in {200, 404} : \E ct \in [1..2 -> JsonTypes] :
          results = [data |-> [i \in 1..2 |->
                                  [request_id |-> Str(RequestIds[i]),
                                   response |-> Resp(status, ct[i], body)]],
                     has_data |-> TRUE, success |-> <<>>, failure |-> <<>>]
    /\ args \in ArgInputs
    /\ prpc = "call"
    /\ prexc = NoExc
    /\ contrib = <<>>
    /\ cleaned = <<>>

SpecCT == InitCT /\ [][NextPR]_vars

(***************************************************************************)
(* Results.cleanup, called on the Results that process_results worked on.  *)
(***************************************************************************)
\* the largest number of Results.cleanup calls on one Results
MaxCleanups == 2

\* the items of a dict, last first
Reversed(s) == [i \in 1..Len(s) |-> s[Len(s) + 1 - i]]

\* sorted(d.items(), reverse=...) that only turns the items round when
\* reverse is set, without sorting them
sortedOrReversed(items, reverse) ==
    IF reverse THEN Reversed(items) ELSE SortedItems(items)

\* sorted(d.items(), reverse=...): the keys of a dict differ, so the
\* descending order is the ascending one, last first
sorted(items, reverse) ==
    IF reverse THEN Reversed(SortedItems(items)) ELSE SortedItems(items)

\* Results.cleanup(sort_order): the new success list, or AttributeError from
\* rec.items() of a record that is no dict, self.success being left as it was
Results_cleanup(success, sort_order) ==
    IF AllDicts(success)
    THEN [exc |-> NoExc,
          success |-> [i \in 1..Len(success) |->
                          Dict(sorted(Kept(success[i][2]), lower(sort_order) = "desc"))]]
    ELSE [exc |-> "AttributeError", success |-> success]

\* the sort_order arguments of the Results.cleanup calls
CleanupOrders == {"asc", "DESC"}

\* results.cleanup(sort_order), after process_results returned or raised;
\* cleaned keeps the argument, the outcome and the success list before the call
ResultsCleanup ==
    /\ prpc \in {"returned", "raised"}
    /\ Len(cleaned) < MaxCleanups
    /\ \E sort_order \in CleanupOrders :
          LET out == Results_cleanup(results.success, sort_order) IN
            /\ results' = [results EXCEPT !.success = out.success]
            /\ cleaned' = Append(cleaned, [sort_order |-> sort_order, exc |-> out.exc,
                                           before |-> results.success])
    /\ UNCHANGED <<reqVars, utilVars, args, prpc, prexc, contrib>>

\* the responses of the batches that Results.cleanup is called on
CleanupInputs ==
    { Resp(200, CT_JSON, B_Nested), Resp(200, CT_JSON, B_WithNull),
      Resp(200, CT_JSON, B_DocsTwo), Resp(200, CT_JSON, B_Int),
      Resp(200, CT_PLAIN, B_Pong), Resp(404, CT_JSON, B_Error) }

\* a fresh Results around 1..MaxBatch gathered results, and the arguments
InitClean ==
    /\ NoRequests
    /\ password = NoPassword
    /\ \E n \in 1..MaxBatch : \E rs \in [1..n -> CleanupInputs] :
          results = [data |-> [i \in 1..n |->
                                  [request_id |-> Str(RequestIds[i]), response |-> rs[i]]],
                     has_data |-> TRUE, success |-> <<>>, failure |-> <<>>]
    /\ args \in ArgInputs
    /\ prpc = "call"
    /\ prexc = NoExc
    /\ contrib = <<>>
    /\ cleaned = <<>>

NextClean == ProcessResults \/ ResultsCleanup

SpecClean == InitClean /\ [][NextClean]_vars


(***************************************************************************)
(* The claims about request() and the gather of a batch.                   *)
(***************************************************************************)
Limit == IF cfg = 0 THEN SEM ELSE cfg
InTransport == {t \in Tasks : pc[t] = "transport"}
Holders == {t \in Tasks : Holding(t)}

\* C1: with a limit of N slots and more than N tasks started together, at most
\* N attempts are between acquiring the gate and leaving it, in every state.
C1_ConcurrencyBound == Cardinality(Holders) <= Limit

\* more tasks than slots, every slot taken by a pending HTTP call, a task waiting
C1_Witness ==
    /\ Cardinality(Batch) > Limit
    /\ Cardinality(InTransport) = Limit
    /\ \E t \in Tasks : pc[t] = "acquire"

\* C2: however an attempt ends, its slot is released exactly once: the free
\* slots plus the attempts holding one are N in every state, and all N slots
\* are free once every task has finished.
C2_SlotsConserved ==
    /\ sem + Cardinality(Holders) = Limit
    /\ (\A t \in Batch : Finished(t)) => sem = Limit

\* every task finished, one of them cancelled while its HTTP call was pending
\* and one by a return or an exception of its own, under a limit below the batch
C2_Witness ==
    /\ Cardinality(Batch) > Limit
    /\ \A t \in Batch : Finished(t)
    /\ \E t \in Batch : pc[t] = "cancelled" /\ calls[t] = attempt[t]
    /\ \E t \in Batch : pc[t] \in {"returned", "raised"} /\ calls[t] >= 1

AlwaysAnswers(o) == stub # <<>> /\ \A k \in DOMAIN stub : stub[k] = o

\* C3: when the transport answers every attempt of a request with 503, the
\* request makes exactly 5 HTTP calls and then raises instead of returning.
C3_Always503 ==
    (AlwaysAnswers(Response(503)) /\ method[1] \in METHODS) =>
        /\ calls[1] <= 5
        /\ pc[1] # "returned"
        /\ result[1] = NoResult
        /\ pc[1] = "raised" => calls[1] = 5 /\ err[1] # NoExc

C3_Witness ==
    /\ AlwaysAnswers(Response(503))
    /\ pc[1] = "raised"
    /\ calls[1] = 5

\* a retryable failure of an attempt: it raised a ClientError, or its response
\* has a status above 499
C4_Retryable(o) == o.exc \in ClientErrors \/ o.status > 499
\* the position of the first scripted outcome that is no retryable failure, 5
\* when the first five are all retryable
C4_FirstStop ==
    IF \E k \in 1..5 : ~C4_Retryable(stub[k])
    THEN CHOOSE k \in 1..5 : /\ ~C4_Retryable(stub[k])
                             /\ \A j \in 1..(k - 1) : C4_Retryable(stub[j])
    ELSE 5

\* C4: for every sequence of attempt outcomes of one request, the HTTP calls
\* made are as many as the position of the first outcome that is no retryable
\* failure, or 5 when the first five are all retryable; never more than 5
\* attempts, and none after an outcome that is not retryable.
C4_AttemptCount ==
    (stub # <<>> /\ method[1] \in METHODS) =>
        /\ attempt[1] <= 5
        /\ calls[1] <= C4_FirstStop
        /\ pc[1] \in {"returned", "raised"} => calls[1] = C4_FirstStop

\* two retryable failures, then a 404 that ends the request at its third call
C4_Witness ==
    /\ stub # <<>>
    /\ stub[1] = Response(503)
    /\ stub[2] = Raised("ClientConnectorError")
    /\ stub[3] = Response(404)
    /\ pc[1] = "returned"
    /\ calls[1] = 3

\* C5: when all 5 attempts of a request fail with retryable failures, the
\* error that reaches the caller is the transport error the attempts raised,
\* not another kind of error wrapping it.
C5_TransportErrorSurfaces ==
    \A t \in Tasks :
        (pc[t] = "raised" /\ calls[t] = 5 /\ C4_Retryable(last[t])) =>
            err[t] \in ClientErrors

\* C6: request() never returns a response with a status above 499: every
\* status from 500 on raises after the HTTP call, and every status up to 499
\* is returned as the result, paired with the request id.
C6_StatusCheck ==
    \A t \in Tasks :
        /\ pc[t] = "returned" =>
              /\ result[t].response \in 1..499
              /\ result[t].response = last[t].status
              /\ result[t].request_id # NoId
              /\ request_id[t] # NoId => result[t].request_id = request_id[t]
        /\ last[t].status > 499 =>
              /\ pc[t] \in {"backoff", "raised", "cancelled"}
              /\ result[t] = NoResult
        /\ last[t].status \in 1..499 => pc[t] = "returned"

\* a 499 returned by one task and a 500 that made another raise or retry
C6_Witness ==
    /\ \E t \in Tasks : pc[t] = "returned" /\ result[t].response = 499
    /\ \E t \in Tasks : last[t].status = 500 /\ pc[t] \in {"backoff", "raised"}

\* C7: a response with a status in 300..499 is never retried: its HTTP call
\* is the last of the request, and it is returned without raising.
C7_NoRetryOf4xx ==
    \A t \in Tasks :
        last[t].status \in 300..499 =>
            /\ pc[t] = "returned"
            /\ result[t].response = last[t].status
            /\ err[t] = NoExc
            /\ calls[t] = attempt[t]

\* a 300 and a 404, each returned after the single call that got it
C7_Witness ==
    /\ \E t \in Tasks : pc[t] = "returned" /\ result[t].response = 300 /\ calls[t] = 1
    /\ \E t \in Tasks : pc[t] = "returned" /\ result[t].response = 404 /\ calls[t] = 1

\* a transport-level failure (connection reset, timeout, DNS failure) or a
\* response with a status above 499
C8_TransportFailure(o) ==
    \/ o.exc \in {"ClientOSError", "TimeoutError", "ClientConnectorError"}
    \/ o.status > 499

\* C8: while fewer than 5 attempts have been made, an attempt is retried if
\* and only if it ended in a transport-level failure (connection reset,
\* timeout, DNS failure) or in a response with a status above 499.
C8_RetriedIffTransportFailure ==
    \A t \in Tasks :
        (last[t] # NoOutcome /\ calls[t] < 5 /\ pc[t] # "cancelled") =>
            (pc[t] = "backoff" <=> C8_TransportFailure(last[t]))

\* C9: the caller gets its Results only after every task of the batch has
\* returned, with every task's result in it; once a task has raised, no
\* Results reaches the caller.
C9_AllOrNothing ==
    /\ caller = "results" =>
          /\ \A t \in Batch : pc[t] = "returned"
          /\ DOMAIN data = Batch
          /\ \A t \in Batch : data[t] = result[t] /\ data[t] # NoResult
    /\ caller # "results" => data = <<>>
    /\ (\E t \in Batch : pc[t] = "raised") => caller # "results"

\* a task has returned, another has raised after its fifth attempt, and the
\* caller has the exception and no Results
C9_Witness ==
    /\ caller = "raised"
    /\ \E t \in Batch : pc[t] = "returned"
    /\ \E t \in Batch : pc[t] = "raised" /\ err[t] = "RetryError"
    /\ data = <<>>

(***************************************************************************)
(* The claims about process_results.                                       *)
(***************************************************************************)
\* the responses of results.data
NResponses == Len(results.data)
StatusOf(i) == results.data[i].response.status
All2xx == \A i \in 1..NResponses : StatusOf(i) \in 200..299

RECURSIVE SuccessCount(_)
\* the records the first n responses added to success
SuccessCount(n) == IF n = 0 THEN 0 ELSE SuccessCount(n - 1) + contrib[n][1]

\* C10 as stated: for every batch of responses whose statuses are all in
\* 200..299, after process_results each response has contributed at least one
\* record to success and the failure list is empty.
C10_EveryResponseContributes ==
    (prpc = "returned" /\ All2xx) =>
        /\ results.failure = <<>>
        /\ \A i \in 1..NResponses : contrib[i][1] >= 1

\* the decoded body of response i is a bare list without elements, or a
\* mapping that holds a list without elements under data_key
C10_NoRecords(i) ==
    LET v == StrToTextPlain(results.data[i].response, Decode(results.data[i].response)[2]) IN
    \/ IsList(v) /\ Len(v[2]) = 0
    \/ /\ IsDict(v)
       /\ args.data_key # NoKey
       /\ HasKey(v, args.data_key)
       /\ Get(v, args.data_key) = List(<<>>)

\* C10, amended: for every batch of responses whose statuses are all in
\* 200..299, process_results adds nothing to failure, and every response it
\* has processed (every response of the batch once it has returned) has
\* contributed at least one record to success, unless its list of records
\* (under data_key, or the bare list body) is empty: then it contributes none.
C10_ResponsesContribute ==
    (prpc # "call" /\ All2xx) =>
        /\ results.failure = <<>>
        /\ prpc = "returned" => Len(contrib) = NResponses
        /\ Len(results.success) = SuccessCount(Len(contrib))
        /\ \A i \in 1..Len(contrib) :
              /\ contrib[i][2] = 0
              /\ contrib[i][1] = 0 <=> C10_NoRecords(i)

\* a returned call on two 2xx responses: one with an empty list of records,
\* one that added two records
C10_Witness ==
    /\ prpc = "returned"
    /\ All2xx
    /\ NResponses = 2
    /\ \E i \in 1..2 : contrib[i][1] = 0
    /\ \E i \in 1..2 : contrib[i][1] = 2
    /\ Len(results.success) = 2

RECURSIVE FailureCount(_)
\* the records the first n responses added to failure
FailureCount(n) == IF n = 0 THEN 0 ELSE FailureCount(n - 1) + contrib[n][2]

\* the call was made without sort_field and sort_order: success is in the
\* order of the appends
Unsorted == args.sort_field = NoKey /\ args.sort_order = NoKey
\* the records response i added to success (of an unsorted call), to failure
SuccessOf(i) == SubSeq(results.success, SuccessCount(i - 1) + 1, SuccessCount(i))
FailureOf(i) == SubSeq(results.failure, FailureCount(i - 1) + 1, FailureCount(i))
\* the loop reached response i / finished its pass for response i
Reached(i) == prpc # "call" /\ Len(contrib) >= i - 1
Passed(i) == prpc # "call" /\ Len(contrib) >= i

\* C11: for every response with status in 300..599 that reaches
\* process_results, exactly one record is appended to failure and nothing is
\* appended to success.
C11_FailureOnly ==
    \A i \in 1..NResponses :
        (Reached(i) /\ StatusOf(i) \in 300..599) =>
            /\ Passed(i)
            /\ contrib[i] = <<0, 1>>

\* C12 as stated: every response processed by process_results, for any
\* status in 100..599, causes records to be appended to exactly one of success
\* and failure: never to both and never to neither.
C12_ExactlyOne ==
    \A i \in 1..NResponses :
        (Passed(i) /\ StatusOf(i) \in 100..599) =>
            (contrib[i][1] > 0) # (contrib[i][2] > 0)

\* C12, amended: every response processed by process_results, for any status
\* in 100..599, appends to at most one of success and failure, never to both;
\* it appends to neither exactly when its status is in 100..199 or it is a 2xx
\* response whose list of records is empty; a response whose pass raises
\* appends nothing.
C12_AtMostOne ==
    prpc # "call" =>
        /\ \A i \in 1..Len(contrib) :
              /\ StatusOf(i) \in 100..599
              /\ ~(contrib[i][1] > 0 /\ contrib[i][2] > 0)
              /\ contrib[i] = <<0, 0>> <=>
                    \/ StatusOf(i) \in 100..199
                    \/ StatusOf(i) \in 200..299 /\ C10_NoRecords(i)
        /\ Len(results.success) = SuccessCount(Len(contrib))
        /\ Len(results.failure) = FailureCount(Len(contrib))

\* a returned call on an informational response, which added nothing, and a
\* 404 response, which added one failure record
C12_Witness ==
    /\ prpc = "returned"
    /\ NResponses = 2
    /\ \E i \in 1..2 : StatusOf(i) = 100 /\ contrib[i] = <<0, 0>>
    /\ \E i \in 1..2 : StatusOf(i) = 404 /\ contrib[i] = <<0, 1>>
    /\ Len(results.failure) = 1

\* the value response i decodes to
Decoded(i) == Decode(results.data[i].response)[2]
\* response i declares JSON and its body is JSON
JsonDecoded(i) ==
    /\ results.data[i].response.ctype \in JsonTypes
    /\ IsOk(Decode(results.data[i].response))

\* response i is a 2xx JSON object
C13_Object(i) == StatusOf(i) \in 200..299 /\ JsonDecoded(i) /\ IsDict(Decoded(i))
\* the object of response i holds a list of mappings under data_key
C13_ListUnderKey(i) ==
    /\ args.data_key # NoKey
    /\ HasKey(Decoded(i), args.data_key)
    /\ IsList(Get(Decoded(i), args.data_key))
    /\ AllDicts(Get(Decoded(i), args.data_key)[2])

\* C13: for a 2xx JSON object response whose data_key field holds a list of k
\* mappings, success gains exactly those k records in list order and failure
\* gains nothing; when the key is absent or its value is not a list, success
\* gains the decoded object as one single record (the call being made with
\* data_key alone, as in the claim's example).
C13_Unwraps ==
    ( /\ prpc # "call"
      /\ Unsorted /\ ~args.cleanup /\ args.remove_request_id
      /\ \A i \in 1..NResponses : C13_Object(i) ) =>
        /\ prpc = "returned"
        /\ results.failure = <<>>
        /\ \A i \in 1..NResponses :
              IF C13_ListUnderKey(i)
              THEN SuccessOf(i) = Get(Decoded(i), args.data_key)[2]
              ELSE SuccessOf(i) = <<Decoded(i)>>

\* the response of the claim's scenario and its decoded body
C14_Response == Resp(404, CT_JSON, B_Error)
C14_Body == Dict(<< <<"error", Str("not found")>> >>)

\* C14 as stated: for a response with status 404 and JSON body
\* {"error":"not found"}, process_results yields success = [] and a failure
\* list holding exactly one record equal to the decoded error body, with no
\* other field added to it (the call being made with remove_request_id=True,
\* the default).
C14_ErrorBodyAlone ==
    ( /\ prpc # "call" /\ args.remove_request_id
      /\ NResponses = 1 /\ results.data[1].response = C14_Response ) =>
        /\ prpc = "returned"
        /\ results.success = <<>>
        /\ results.failure = <<C14_Body>>

\* C14, amended: for a response with status 404 and JSON body
\* {"error":"not found"}, process_results yields success = [] and a failure
\* list holding exactly one record: the decoded error body with the field
\* request_id of its request added, whatever remove_request_id is; in a batch
\* the response adds that one record to failure and nothing to success.
C14_ErrorBodyWithId ==
    \A i \in 1..NResponses :
        (Reached(i) /\ results.data[i].response = C14_Response) =>
            /\ Passed(i)
            /\ contrib[i] = <<0, 1>>
            /\ FailureOf(i) = <<Put(C14_Body, "request_id", results.data[i].request_id)>>
            /\ NResponses = 1 => prpc = "returned" /\ results.success = <<>>
                                 /\ Len(results.failure) = 1

\* the returned call of the scenario, made with remove_request_id=True
C14_Witness ==
    /\ prpc = "returned"
    /\ NResponses = 1
    /\ results.data[1].response = C14_Response
    /\ args.remove_request_id
    /\ results.success = <<>>
    /\ Len(results.failure) = 1
    /\ HasKey(results.failure[1], "request_id")

\* the fields of a record, and its fields but request_id
Fields(rec) == {rec[2][j] : j \in 1..Len(rec[2])}
WithoutId(rec) == {kv \in Fields(rec) : kv[1] # "request_id"}
\* the one record response i added, to success or to failure by its status
RecordOf(i) ==
    IF StatusOf(i) \in 200..299 THEN SuccessOf(i)[1] ELSE FailureOf(i)[1]
\* response i added one record, to the list its status names
OneRecordByStatus(i) ==
    /\ Passed(i)
    /\ contrib[i] = IF StatusOf(i) \in 200..299 THEN <<1, 0>> ELSE <<0, 1>>
    /\ IsDict(RecordOf(i))

\* the Content-Types of the table that are kept as text
C15_TextTypes == {NoHeader, CT_JWT, CT_PLAIN, CT_HTML}
\* the record the table gives for a Content-Type and a body
C15_Table(ctype, body) ==
    CASE ctype = CT_JWT -> {<<"token", Str(body)>>, <<"token_type", Str("Bearer")>>}
      [] ctype = CT_PLAIN -> {<<"text_plain", Str(body)>>}
      [] ctype = CT_HTML -> {<<"text_html", Str(body)>>}
      [] ctype = NoHeader -> {<<"text_plain", Str(body)>>}

\* C15: decoding follows the content-type table: application/jwt decodes to
\* {token: body, token_type: "Bearer"}, text/plain to {text_plain: body},
\* text/html to {text_html: body}, and a response without Content-Type header
\* is decoded as plain text; text/plain body "pong" with status 200 yields
\* success = [{"text_plain": "pong"}].
C15_ContentTypeTable ==
    /\ \A i \in 1..NResponses :
          (Reached(i) /\ StatusOf(i) >= 200
                      /\ results.data[i].response.ctype \in C15_TextTypes) =>
              /\ OneRecordByStatus(i)
              /\ WithoutId(RecordOf(i)) =
                    C15_Table(results.data[i].response.ctype, results.data[i].response.body)
    /\ ( /\ prpc # "call" /\ NResponses = 1 /\ args.remove_request_id
         /\ args.sort_field = NoKey
         /\ results.data[1].response = Resp(200, CT_PLAIN, B_Pong) ) =>
            /\ prpc = "returned"
            /\ results.success = <<Dict(<< <<"text_plain", Str("pong")>> >>)>>
            /\ results.failure = <<>>

\* a returned call on a text/html response with status 300 and a token
C15_Witness ==
    /\ prpc = "returned"
    /\ NResponses = 2
    /\ results.data[1].response = Resp(300, CT_HTML, B_Page)
    /\ results.data[2].response = Resp(200, CT_JWT, B_Token)
    /\ WithoutId(results.failure[1]) = {<<"text_html", Str(B_Page)>>}
    /\ Len(results.success) = 1

\* a record without its request id
Strip(rec) == IF IsDict(rec) THEN <<"dict", WithoutId(rec)>> ELSE rec

\* C16: for every JSON body, the decoded value and the records appended by
\* process_results are the same whether the response declares
\* application/json, application/javascript or text/javascript: of two such
\* responses with one body and one status, either both are decoded to the same
\* value and add the same records, or the first one already ends the call.
C16_SameUnderJsonTypes ==
    prpc # "call" =>
        /\ Decode(results.data[1].response) = Decode(results.data[2].response)
        /\ Len(contrib) \in {0, 2}
        /\ Len(contrib) = 2 =>
              /\ contrib[1] = contrib[2]
              /\ Unsorted =>
                    /\ Len(SuccessOf(1)) = Len(SuccessOf(2))
                    /\ \A k \in 1..Len(SuccessOf(1)) :
                          Strip(SuccessOf(1)[k]) = Strip(SuccessOf(2)[k])
                    /\ \A k \in 1..Len(FailureOf(1)) :
                          Strip(FailureOf(1)[k]) = Strip(FailureOf(2)[k])

\* a returned call on {"docs": [...]} declared as application/json and as
\* application/javascript, each adding its two records
C16_Witness ==
    /\ prpc = "returned"
    /\ Unsorted
    /\ results.data[1].response = Resp(200, CT_JSON, B_DocsTwo)
    /\ results.data[2].response = Resp(200, CT_JS, B_DocsTwo)
    /\ args.data_key = "docs"
    /\ contrib = << <<2, 0>>, <<2, 0>> >>
    /\ Len(results.success) = 4

\* the Content-Type of response i matches none of the prefixes of the table
C17_OutsideTable(i) ==
    LET ctype == results.data[i].response.ctype IN
    /\ ctype # NoHeader
    /\ \A prefix \in {"application/jwt", "application/json", "application/javascript",
                      "text/javascript", "text/plain", "text/html"} :
          ~StartsWith(ctype, prefix)

\* C17: a response whose Content-Type matches none of the table's prefixes
\* does not make process_results fail: the body is decoded as plain text, and
\* the record is placed in success or failure by status like any other
\* response.
C17_FallsBackToText ==
    \A i \in 1..NResponses :
        (Reached(i) /\ StatusOf(i) >= 200 /\ C17_OutsideTable(i)) =>
            /\ prexc # "NotImplementedError"
            /\ OneRecordByStatus(i)
            /\ WithoutId(RecordOf(i)) = {<<"text_plain", Str(results.data[i].response.body)>>}

\* response i declares JSON and its body is no JSON
C18_Malformed(i) ==
    /\ results.data[i].response.ctype \in JsonTypes
    /\ ~IsOk(loads(results.data[i].response.body))

\* C18: a response that declares a JSON content type but whose body is not
\* valid JSON never raises out of process_results: it is decoded as plain text
\* instead and recorded in success or failure according to its status.
C18_MalformedJsonIsText ==
    \A i \in 1..NResponses :
        (Reached(i) /\ StatusOf(i) >= 200 /\ C18_Malformed(i)) =>
            /\ prexc # "JSONDecodeError"
            /\ OneRecordByStatus(i)
            /\ WithoutId(RecordOf(i)) = {<<"text_plain", Str(results.data[i].response.body)>>}

\* response i declares JSON and decodes to a bare non-empty string
C19_BareString(i) ==
    /\ JsonDecoded(i)
    /\ IsStr(Decoded(i))
    /\ Decoded(i) # Str("")

\* C19: when a JSON content type is declared and the decoded value is a bare
\* non-empty string, process_results replaces it by the plain-text record
\* {text_plain: body text} and continues without failing: the pass of the
\* response ends, and the record goes to success or failure by status.
C19_BareStringIsText ==
    \A i \in 1..NResponses :
        (Reached(i) /\ C19_BareString(i)) =>
            /\ OneRecordByStatus(i)
            /\ WithoutId(RecordOf(i)) = {<<"text_plain", Str(results.data[i].response.body)>>}

\* a returned call on two 404 responses with the body "pong" in quotes
C19_Witness ==
    /\ prpc = "returned"
    /\ \A i \in 1..2 : StatusOf(i) = 404 /\ results.data[i].response.body = B_JsonStr
    /\ Len(results.failure) = 2
    /\ Get(results.failure[2], "text_plain") = Str(B_JsonStr)
    /\ Decoded(2) = Str("pong")

\* response i is a 2xx response that decodes to a bare list of mappings or to
\* a bare integer
C20_Bare(i) ==
    /\ StatusOf(i) \in 200..299
    /\ JsonDecoded(i)
    /\ \/ IsInt(Decoded(i))
       \/ IsList(Decoded(i)) /\ AllDicts(Decoded(i)[2])

\* C20: for a 2xx response whose decoded value is a bare list, each element
\* becomes one success record in list order; when the decoded value is a bare
\* integer, success gains it as a single-element list; in both cases
\* process_results (including its cleanup and id-removal steps) completes
\* without error.
C20_BareListAndScalar ==
    (prpc # "call" /\ Unsorted /\ \A i \in 1..NResponses : C20_Bare(i)) =>
        /\ prpc = "returned"
        /\ \A i \in 1..NResponses :
              IF IsInt(Decoded(i)) THEN SuccessOf(i) = <<Decoded(i)>>
              ELSE /\ Len(SuccessOf(i)) = Len(Decoded(i)[2])
                   /\ \A k \in 1..Len(SuccessOf(i)) :
                         Strip(SuccessOf(i)[k]) = Strip(Decoded(i)[2][k])

\* response i is a 2xx response of one of the decoded shapes: an object (with
\* a list or another value under data_key, or without data_key), a bare list
\* of mappings, a bare integer
C21_Shape(i) ==
    /\ StatusOf(i) \in 200..299
    /\ JsonDecoded(i)
    /\ \/ IsDict(Decoded(i))
       \/ IsInt(Decoded(i))
       \/ IsList(Decoded(i)) /\ AllDicts(Decoded(i)[2])

\* C21: after process_results with remove_request_id=True (the default)
\* returns, no record in success contains the key request_id, and the removal
\* step completes without error for every decoded response shape (the call
\* being made without cleanup and sort, so that the removal step is reached).
C21_IdsRemoved ==
    ( /\ prpc # "call"
      /\ args.remove_request_id /\ ~args.cleanup /\ Unsorted
      /\ \A i \in 1..NResponses : C21_Shape(i) ) =>
        /\ prpc = "returned"
        /\ \A k \in 1..Len(results.success) :
              IsDict(results.success[k]) => ~HasKey(results.success[k], "request_id")

\* record rec carries the request id of the request of response i
CarriesIdOf(rec, i) ==
    /\ HasKey(rec, "request_id")
    /\ Get(rec, "request_id") = results.data[i].request_id

\* C22, request(): a caller-supplied request_id is returned unchanged
\* together with that same call's response, under any completion order of
\* concurrent requests and any number of retries.
C22_IdReturned ==
    /\ \A t \in Tasks :
          (pc[t] = "returned" /\ request_id[t] # NoId) =>
              /\ result[t].request_id = request_id[t]
              /\ result[t].response = last[t].status
    /\ caller = "results" =>
          \A t \in DOMAIN data : data[t] = result[t]

\* C22, process_results: with remove_request_id=False every success record
\* and every failure record (that is a mapping) carries the request_id of the
\* request whose response it was decoded from.
C22_RecordsCarryId ==
    (prpc # "call" /\ ~args.remove_request_id /\ Unsorted) =>
        \A i \in 1..Len(contrib) :
            /\ \A k \in 1..Len(SuccessOf(i)) :
                  IsDict(SuccessOf(i)[k]) => CarriesIdOf(SuccessOf(i)[k], i)
            /\ \A k \in 1..Len(FailureOf(i)) :
                  IsDict(FailureOf(i)[k]) => CarriesIdOf(FailureOf(i)[k], i)

(***************************************************************************)
(* The claims about cleanup.                                               *)
(***************************************************************************)
\* the last Results.cleanup call made
LastCleanup == cleaned[Len(cleaned)]

\* the direction of the n-th cleanup of the Results: process_results cleans
\* ascending (n = 0, when called with cleanup=True), Results.cleanup as asked
CleanupDirection(n) ==
    IF n = 0 THEN (IF args.cleanup /\ prpc = "returned" THEN "asc" ELSE "none")
    ELSE lower(cleaned[n].sort_order)

WithoutCleanup ==
    process_results([results EXCEPT !.has_data = TRUE, !.success = <<>>, !.failure = <<>>],
                    [args EXCEPT !.cleanup = FALSE]).success

\* after is before with the keys of value None taken out of every record:
\* as many records in the same order, each without a None value and with
\* every other key of the record it comes from, value unchanged
CleanedFrom(before, after) ==
    /\ Len(after) = Len(before)
    /\ \A k \in 1..Len(after) :
          /\ IsDict(before[k]) /\ IsDict(after[k])
          /\ \A kv \in Fields(after[k]) : kv[2] # None
          /\ Len(after[k][2]) = Cardinality(Fields(after[k]))
          /\ Fields(after[k]) = {kv \in Fields(before[k]) : kv[2] # None}

KeysInOrder(rec, reverse) ==
    \A i, j \in 1..Len(rec[2]) :
        i < j => IF reverse THEN StrRank(rec[2][j][1]) < StrRank(rec[2][i][1])
                 ELSE StrRank(rec[2][i][1]) < StrRank(rec[2][j][1])

\* the values of record rec that are mappings
NestedOf(rec) == {rec[2][i][2] : i \in {j \in 1..Len(rec[2]) : IsDict(rec[2][j][2])}}

\* the keys of rec are in order, and so are those of the mappings it holds
\* (the responses of the model nest one level deep)
KeysInOrderAtEveryLevel(rec, reverse) ==
    /\ KeysInOrder(rec, reverse)
    /\ \A v \in NestedOf(rec) : KeysInOrder(v, reverse)

\* C25 as stated: after cleanup the keys of every success record are in
\* alphabetical order at every nesting level, ascending by default and
\* descending when descending order is requested.
C25_SortedAtEveryLevel ==
    /\ (prpc = "returned" /\ args.cleanup /\ cleaned = <<>>) =>
          \A k \in 1..Len(results.success) :
              KeysInOrderAtEveryLevel(results.success[k], FALSE)
    /\ (cleaned # <<>> /\ LastCleanup.exc = NoExc) =>
          \A k \in 1..Len(results.success) :
              KeysInOrderAtEveryLevel(results.success[k],
                                      lower(LastCleanup.sort_order) = "desc")

\* C25, amended: after cleanup the top-level keys of every success record are
\* in alphabetical order: ascending after process_results(cleanup=True),
\* whatever its sort_order is, and after Results.cleanup, unless the
\* sort_order given to Results.cleanup is "desc" in any letter case: then
\* descending. A mapping nested in a record is kept as it was, the order of
\* its keys included.
C25_TopLevelSorted ==
    /\ (prpc = "returned" /\ args.cleanup /\ cleaned = <<>>) =>
          \A k \in 1..Len(results.success) :
              /\ KeysInOrder(results.success[k], FALSE)
              /\ NestedOf(results.success[k]) = NestedOf(WithoutCleanup[k])
    /\ (cleaned # <<>> /\ LastCleanup.exc = NoExc) =>
          \A k \in 1..Len(results.success) :
              /\ KeysInOrder(results.success[k], lower(LastCleanup.sort_order) = "desc")
              /\ NestedOf(results.success[k]) = NestedOf(LastCleanup.before[k])

\* Results.cleanup put the keys of a record in descending order and left
\* the mapping nested in it with its keys out of order
C25_Witness ==
    /\ cleaned # <<>> /\ LastCleanup.exc = NoExc
    /\ lower(LastCleanup.sort_order) = "desc"
    /\ \E k \in 1..Len(results.success) :
          /\ Len(results.success[k][2]) >= 2
          /\ results.success[k] # LastCleanup.before[k]
          /\ \E v \in NestedOf(results.success[k]) :
                ~KeysInOrder(v, TRUE) /\ ~KeysInOrder(v, FALSE)

(***************************************************************************)
(* The claims about the sort of the success list.                          *)
(***************************************************************************)
\* what the process_results call made returns when it is made without
\* sort_field and sort_order, the other arguments being the same
WithoutSort ==
    process_results([results EXCEPT !.has_data = TRUE, !.success = <<>>, !.failure = <<>>],
                    [args EXCEPT !.sort_field = NoKey, !.sort_order = NoKey])

\* the call asks for the descending direction
Descending == args.sort_order # NoKey /\ lower(args.sort_order) = "desc"

\* every record of s has an integer under field f
AllHaveField(s, f) ==
    \A k \in 1..Len(s) : IsDict(s[k]) /\ HasKey(s[k], f) /\ IsInt(Get(s[k], f))

\* after is a stable sort of before by the integer keys given: a rearrangement
\* pi of before in which the keys do not decrease (do not increase when
\* reverse is set) and records with equal keys stand as they stood in before
StablySorted(before, after, keys, reverse) ==
    /\ Len(after) = Len(before)
    /\ \E pi \in Permutations(1..Len(before)) :
          /\ \A p \in 1..Len(after) : after[p] = before[pi[p]]
          /\ \A p, q \in 1..Len(after) :
                p < q => /\ IF reverse THEN keys[pi[p]] >= keys[pi[q]]
                                       ELSE keys[pi[p]] <= keys[pi[q]]
                         /\ keys[pi[p]] = keys[pi[q]] => pi[p] < pi[q]

\* the success list of the call is that of the call without sort, stably
\* sorted by field f
SortedByField(f) ==
    LET before == WithoutSort.success IN
    StablySorted(before, results.success,
                 [k \in 1..Len(before) |-> Get(before[k], f)[2]], Descending)

\* the success list of the call is that of the call without sort, the
\* records themselves stably sorted: integers by value, and mappings, which
\* have no order among themselves, rearranged in some way
SortedGeneric ==
    LET before == WithoutSort.success IN
    IF \A k \in 1..Len(before) : IsInt(before[k])
    THEN StablySorted(before, results.success,
                      [k \in 1..Len(before) |-> before[k][2]], Descending)
    ELSE /\ Len(results.success) = Len(before)
         /\ \E pi \in Permutations(1..Len(before)) :
               \A p \in 1..Len(before) : results.success[p] = before[pi[p]]

\* C26, with sort_field: the success list after process_results is a
\* permutation of the unsorted success list ordered by the value of the
\* top-level field f, non-decreasing unless sort_order equals "desc" in any
\* letter case, then non-increasing; records with equal f keep their
\* relative input order. (For calls whose records all have an integer
\* under f.)
C26_SortedByField ==
    ( /\ prpc # "call" /\ args.sort_field # NoKey
      /\ WithoutSort.exc = NoExc
      /\ AllHaveField(WithoutSort.success, args.sort_field) ) =>
        prpc = "returned" /\ SortedByField(args.sort_field)

\* C26: the sort by field as above, and with sort_order but no sort_field
\* the records themselves are stably sorted in that direction.
C26_Sorted ==
    /\ C26_SortedByField
    /\ ( /\ prpc # "call" /\ args.sort_field = NoKey /\ args.sort_order # NoKey
         /\ WithoutSort.exc = NoExc ) =>
           prpc = "returned" /\ SortedGeneric

Outstanding == {t \in Batch : ~Finished(t)}

\* C28: when the caller leaves the client's scope while tasks of a batch are
\* still outstanding, every outstanding task is cancelled: past the exit no
\* task takes a step of its request other than being cancelled and none
\* issues a further HTTP call; and the results of the tasks that had
\* completed are not returned.
C28_OutstandingCancelled ==
    [][ /\ scope = "exited" =>
              /\ \A t \in Tasks : pc'[t] # pc[t] => pc'[t] = "cancelled"
              /\ calls' = calls
        /\ (scope' = "exited" /\ Outstanding' # {}) => data' = <<>> ]_vars

\* C29: leaving the async with BaseClientApi(...) scope closes the shared
\* session exactly once, whether the body finished normally or raised (a
\* batch that raised after exhausted retries included): the session is open
\* during the whole body and closed, by one close() call, in every state
\* after the scope exit.
C29_ClosedOnce ==
    /\ scope = "body" => session = 0
    /\ scope = "exited" => session = 1

\* the scope was left by the RetryError of a task that had used up its
\* attempts, and the session is closed
C29_Witness ==
    /\ scope = "exited" /\ caller = "raised" /\ session = 1
    /\ \E t \in Batch : pc[t] = "raised" /\ err[t] = "RetryError" /\ calls[t] = MaxAttempts

(***************************************************************************)
(* The claim about a method that is not served.                            *)
(***************************************************************************)
\* the requests whose method is not in the supported verb set
Unsupported == {t \in Batch : method[t] \notin METHODS}

\* an unsupported request issues no HTTP call and is never retried: no
\* second attempt and no backoff wait
C30_NeverCalledNorRetried ==
    \A t \in Unsupported : calls[t] = 0 /\ attempt[t] = 1 /\ pc[t] # "backoff"

\* C30: a request whose method is not in the supported verb set (get, patch,
\* post, put, delete) is rejected before any concurrency slot is acquired and
\* before any HTTP call, and the rejection is never retried.
C30_RejectedBeforeTheGate ==
    /\ \A t \in Unsupported : ~Holding(t)
    /\ C30_NeverCalledNorRetried

(***************************************************************************)
(* The claims about the backoff.                                           *)
(***************************************************************************)
\* the tasks that sleep between two attempts
Sleeping == {t \in Tasks : pc[t] = "backoff"}

\* a wait is at most 60 time-units, a request waits at most 4 times (the
\* wait before attempt n is the (n-1)-th), and no wait follows the final
\* attempt: a task that is not between two attempts is in no wait
C31_WaitsBounded ==
    /\ \A t \in Sleeping : wait[t] >= 0 /\ wait[t] <= WaitMax /\ attempt[t] <= MaxAttempts
    /\ \A t \in Tasks \ Sleeping : wait[t] = NoWait

\* C31: every backoff wait between two consecutive attempts of a request is
\* at least 3 and at most 60 time-units, for each of the at most 4 waits of
\* a request; no wait follows the final attempt.
C31_WaitsWithinBounds ==
    /\ C31_WaitsBounded
    /\ \A t \in Sleeping : wait[t] >= WaitMin

\* C32: a request holds a concurrency slot only during an attempt: the slot
\* is released as the backoff wait starts and acquired again, through the
\* gate, for the next attempt; a request waiting in backoff does not count
\* against the limit N and does not keep another request from being admitted.
C32_SlotOnlyDuringAttempt ==
    /\ [](\A t \in Sleeping :
            /\ ~Holding(t)
            /\ sem + Cardinality(Holders) = Limit
            /\ Cardinality(Holders) < Limit => ~locked(sem))
    /\ [][\A t \in Tasks :
            /\ (pc[t] = "transport" /\ pc'[t] = "backoff") => sem' = sem + 1
            /\ pc[t] = "backoff" => pc'[t] \in {"backoff", "acquire", "cancelled"}
            /\ (pc[t] = "acquire" /\ pc'[t] = "entered") => (~locked(sem) /\ sem' = sem - 1)
            /\ calls'[t] # calls[t] => (pc[t] = "entered" /\ calls[t] = attempt[t] - 1)]_vars

\* under a limit of one, a request is in its backoff wait while the HTTP call
\* of another, admitted in the meantime, is pending
C32_Witness ==
    /\ Limit = 1
    /\ \E t, u \in Tasks : pc[t] = "backoff" /\ wait[t] > 0 /\ pc[u] = "transport"

C34_EventBeforeEveryWait ==
    /\ [](\A t \in Tasks :
            /\ events[t].before_sleep = attempt[t] - 1
            /\ events[t].before_sleep <= MaxAttempts - 1
            /\ t \in Sleeping => calls[t] = events[t].before_sleep)
    /\ [][\A t \in Tasks :
            /\ events'[t].before_sleep # events[t].before_sleep <=>
                  (pc[t] # "backoff" /\ pc'[t] = "backoff")
            /\ (pc[t] # "backoff" /\ pc'[t] = "backoff") =>
                  events'[t].before_sleep = events[t].before_sleep + 1
            /\ Finished(t) => events'[t] = events[t]]_vars

\* a request has raised RetryError after its fifth attempt: four events, one
\* before each of its four waits
C34_Witness ==
    \E t \in Tasks :
        /\ pc[t] = "raised" /\ err[t] = "RetryError"
        /\ calls[t] = MaxAttempts /\ events[t].before_sleep = MaxAttempts - 1

\* the call on response i alone, with the same arguments
AloneOf(i) ==
    process_results([data |-> <<results.data[i]>>, has_data |-> TRUE,
                     success |-> <<>>, failure |-> <<>>], args)

\* the list of records that response i carries (under data_key, or as its
\* body), <<>> when it carries no list of mappings
ListOf(i) ==
    LET v == StrToTextPlain(results.data[i].response, Decode(results.data[i].response)[2]) IN
    IF IsDict(v) /\ args.data_key # NoKey /\ HasKey(v, args.data_key)
         /\ IsList(Get(v, args.data_key)) /\ AllDicts(Get(v, args.data_key)[2])
    THEN Get(v, args.data_key)[2]
    ELSE IF IsList(v) /\ AllDicts(v[2]) THEN v[2]
    ELSE <<>>

\* C35: without sort_field and sort_order a returned process_results keeps the
\* input order: success is the records of the first response, then those of
\* the second, and so on, each response's records being the ones a call on
\* that response alone yields; the records unwrapped from one list-valued
\* response stand together in the order of that list; failure holds the
\* failure records in the order of their responses.
C35_InputOrderKept ==
    (prpc = "returned" /\ Unsorted) =>
        /\ Len(contrib) = NResponses
        /\ Len(results.success) = SuccessCount(NResponses)
        /\ Len(results.failure) = FailureCount(NResponses)
        /\ \A i \in 1..NResponses :
              /\ SuccessOf(i) = AloneOf(i).success
              /\ FailureOf(i) = AloneOf(i).failure
              /\ (StatusOf(i) \in 200..299 /\ ListOf(i) # <<>>) =>
                    /\ Len(SuccessOf(i)) = Len(ListOf(i))
                    /\ \A k \in 1..Len(ListOf(i)) :
                          Get(SuccessOf(i)[k], "id") = Get(ListOf(i)[k], "id")

\* a returned call without sort on a bare list of the records 2, 1 and a
\* mapping with the records 1, 2 under data_key: success holds 2, 1, 1, 2
C35_Witness ==
    /\ prpc = "returned"
    /\ Unsorted
    /\ NResponses = 2
    /\ results.data[1].response = Resp(299, CT_TEXT_JS, B_ListTwo)
    /\ results.data[2].response = Resp(200, CT_JSON, B_DocsTwo)
    /\ args.data_key = "docs"
    /\ [k \in 1..4 |-> Get(results.success[k], "id")] = <<Num(2), Num(1), Num(1), Num(2)>>

(***************************************************************************)
(* process_results called with a sort_field that cleanup or the removal of *)
(* the request ids takes away.                                             *)
(***************************************************************************)
\* the responses of these batches
OrderInputs ==
    { Resp(200, CT_JSON, B_WithNull), Resp(200, CT_JSON, B_DocsTwo),
      Resp(299, CT_TEXT_JS, B_ListTwo), Resp(200, CT_JSON, B_Int),
      Resp(404, CT_JSON, B_Error), Resp(200, CT_JSON, B_Pong) }

\* the arguments of these calls
OrderArgs ==
    [data_key : {NoKey, "docs"}, cleanup : BOOLEAN, sort_field : {"x", "request_id", "id"},
     sort_order : {NoKey, "DESC"}, remove_request_id : BOOLEAN]

\* a fresh Results around 1..MaxBatch gathered results, and the arguments
InitOrder ==
    /\ NoRequests
    /\ password = NoPassword
    /\ \E n \in 1..MaxBatch : \E rs \in [1..n -> OrderInputs] :
          results = [data |-> [i \in 1..n |->
                                  [request_id |-> Str(RequestIds[i]), response |-> rs[i]]],
                     has_data |-> TRUE, success |-> <<>>, failure |-> <<>>]
    /\ args \in OrderArgs
    /\ prpc = "call"
    /\ prexc = NoExc
    /\ contrib = <<>>
    /\ cleaned = <<>>

SpecOrder == InitOrder /\ [][NextPR]_vars

\* the call with the same data_key and nothing else: the partition alone
Partitioned ==
    process_results([results EXCEPT !.has_data = TRUE, !.success = <<>>, !.failure = <<>>],
                    [args EXCEPT !.cleanup = FALSE, !.sort_field = NoKey,
                                 !.sort_order = NoKey, !.remove_request_id = FALSE])

\* the call with the same data_key and cleanup, without sort and removal
CleanedOnly ==
    process_results([results EXCEPT !.has_data = TRUE, !.success = <<>>, !.failure = <<>>],
                    [args EXCEPT !.sort_field = NoKey, !.sort_order = NoKey,
                                 !.remove_request_id = FALSE])

\* a partitioned record holds None under the sort field
NoneUnderSortField ==
    \E k \in 1..Len(Partitioned.success) :
        /\ HasKey(Partitioned.success[k], args.sort_field)
        /\ Get(Partitioned.success[k], args.sort_field) = None

\* C36: process_results post-processes in one order, after the partition of
\* all the responses: cleanup, the sort, the removal of the request ids. An
\* exception of the partition leaves results.data and nothing is
\* post-processed. With cleanup, a sort by a field that a record holds None
\* under fails with KeyError, the field being gone when the sort looks for it,
\* and leaves the cleaned records with their request ids. A sort by
\* request_id orders the records by the request ids they had after the
\* partition, stably, also when remove_request_id then takes the ids away.
C36_CleanupSortRemoval ==
    prpc # "call" =>
        /\ Partitioned.exc # NoExc =>
              prexc = Partitioned.exc /\ results.has_data
        /\ (Partitioned.exc = NoExc /\ AllDicts(Partitioned.success) /\ args.cleanup
              /\ NoneUnderSortField) =>
              /\ prexc = "KeyError"
              /\ ~results.has_data
              /\ results.success = CleanedOnly.success
        /\ (Partitioned.exc = NoExc /\ AllDicts(Partitioned.success)
              /\ args.sort_field = "request_id") =>
              /\ prpc = "returned"
              /\ StablySorted(WithoutSort.success, results.success,
                              [k \in 1..Len(Partitioned.success) |->
                                  StrRank(Get(Partitioned.success[k], "request_id")[2])],
                              Descending)
              /\ \A k \in 1..Len(results.success) :
                    HasKey(results.success[k], "request_id") <=> ~args.remove_request_id

\* a returned call with cleanup, a descending sort by request_id and the
\* removal of the ids: the records of the second response, then the one of
\* the first, without the None-valued key and without request ids
C36_Witness ==
    /\ prpc = "returned"
    /\ args.cleanup /\ args.remove_request_id
    /\ args.sort_field = "request_id" /\ args.sort_order = "DESC"
    /\ results.data[1].response = Resp(200, CT_JSON, B_WithNull)
    /\ NResponses = 2 /\ results.data[2].response = Resp(299, CT_TEXT_JS, B_ListTwo)
    /\ results.success = << Dict(<< <<"id", Num(2)>> >>), Dict(<< <<"id", Num(1)>> >>),
                            Dict(<< <<"id", Num(3)>> >>) >>

\* C37: cleanup, the sort and the removal of the request ids leave
\* results.failure alone: once process_results has returned or raised,
\* failure holds the entries the partition appended, in that order, whatever
\* cleanup, sort_field, sort_order and remove_request_id are, and every
\* mapping among them still carries the request id of its response.
C37_FailureUntouched ==
    prpc # "call" =>
        /\ results.failure = Partitioned.failure
        /\ Len(results.failure) = FailureCount(Len(contrib))
        /\ \A i \in 1..Len(contrib) :
              (contrib[i][2] = 1 /\ IsDict(FailureOf(i)[1])) =>
                  /\ HasKey(FailureOf(i)[1], "request_id")
                  /\ Get(FailureOf(i)[1], "request_id") = results.data[i].request_id

\* a returned call with cleanup, a descending sort by id and the removal of
\* the ids, on a 404 mapping and two records: the failure entry has its id
C37_Witness ==
    /\ prpc = "returned"
    /\ args.cleanup /\ args.remove_request_id
    /\ args.sort_field = "id" /\ args.sort_order = "DESC"
    /\ NResponses = 2
    /\ results.data[1].response = Resp(404, CT_JSON, B_Error)
    /\ results.data[2].response = Resp(200, CT_JSON, B_DocsTwo)
    /\ Len(results.success) = 2
    /\ ~HasKey(results.success[1], "request_id")
    /\ Len(results.failure) = 1
    /\ Get(results.failure[1], "request_id") = Str("rid1")

(***************************************************************************)
(* utils.generate_password. A password is the sequence of the classes of   *)
(* its characters: the claims are about the classes and the length.        *)
(***************************************************************************)
\* the largest max_length of a call
MaxPwdLen == 6

\* chars: '@', '#', '$', the ascii letters and the digits, by class
chars == {"upper", "lower", "digit", "special"}

\* choice(ascii_uppercase), choice(ascii_lowercase), choice(digits),
\* choice(['@', '#', '$']): the four characters every password starts from
FirstFour == <<"upper", "lower", "digit", "special">>

\* range(a, b) as a set
range(a, b) == {n \in a..(b - 1) : TRUE}

\* pwd.extend([choice(chars) for _ in range(length - len(pwd))]); shuffle(pwd):
\* the passwords that can come of a drawn length; range of a negative number
\* is empty, so a password never has fewer than four characters
Shuffled(length) ==
    LET more == IF length > 4 THEN length - 4 ELSE 0 IN
    UNION { { [i \in 1..(4 + more) |-> (FirstFour \o extra)[pi[i]]] :
                pi \in Permutations(1..(4 + more)) } :
            extra \in [1..more -> chars] }

\* any(pwd): every character is a non-empty str, so any() is True of a
\* password that has a character
any(pwd) == <<"bool", Len(pwd) > 0>>

\* x in a list of strs: True equals no str
InList(x, xs) == \E i \in 1..Len(xs) : xs[i] = x

\* the four assert statements, in order: 0 when all hold, or the number of the
\* first that fails. The second compares any(pwd), a bool, with '@', '#', '$'
\* and never holds; the third and fourth would test a bool for membership in a
\* str, a TypeError
Asserts(length, pwd) ==
    IF length - Len(pwd) # 0 THEN [failed |-> 1, exc |-> "AssertionError"]
    ELSE IF ~InList(any(pwd), <<Str("@"), Str("#"), Str("$")>>)
        THEN [failed |-> 2, exc |-> "AssertionError"]
    ELSE [failed |-> 3, exc |-> "TypeError"]

\* generate_password(min_len, max_length): the outcomes of a call; optimize is
\* python -O, which compiles the assert statements away; choice of an empty
\* range raises IndexError
generate_password(min_len, max_length, optimize) ==
    IF range(min_len, max_length) = {}
    THEN {[length |-> 0, pwd |-> <<>>, exc |-> "IndexError", failed |-> 0]}
    ELSE UNION { { IF optimize
                   THEN [length |-> length, pwd |-> pwd, exc |-> NoExc, failed |-> 0]
                   ELSE [length |-> length, pwd |-> <<>>,
                         exc |-> Asserts(length, pwd).exc,
                         failed |-> Asserts(length, pwd).failed] :
                   pwd \in Shuffled(length) } :
                 length \in range(min_len, max_length) }

\* pwd = generate_password(min_len, max_length): the call, to its return or
\* its exception
GeneratePassword ==
    /\ password.pc = "call"
    /\ \E out \in generate_password(password.min_len, password.max_length,
                                    password.optimize) :
          password' = [password EXCEPT !.pc = IF out.exc = NoExc THEN "returned" ELSE "raised",
                                       !.length = out.length, !.pwd = out.pwd,
                                       !.exc = out.exc, !.failed = out.failed]
    /\ UNCHANGED <<reqVars, prVars>>

\* a call with a min_len of 2..MaxPwdLen - 1 and a max_length of 4..MaxPwdLen,
\* with the asserts compiled in or away
InitPwd ==
    /\ NoRequests
    /\ NoProcessResults
    /\ \E a \in 2..(MaxPwdLen - 1) : \E b \in 4..MaxPwdLen : \E o \in BOOLEAN :
          password = [NoPassword EXCEPT !.pc = "call", !.min_len = a,
                                        !.max_length = b, !.optimize = o]

NextPwd == GeneratePassword

SpecPwd == InitPwd /\ [][NextPwd]_vars

\* a class of characters occurs in the returned password
Has(class) == \E i \in 1..Len(password.pwd) : password.pwd[i] = class

\* C38: every generate_password(min_len, max_length) call with
\* 4 <= min_len < max_length returns, no assertion failing, a password of a
\* length L with min_len <= L < max_length that holds an uppercase letter, a
\* lowercase letter, a digit and one of '@', '#', '$'.
C38_PasswordMeetsRequirements ==
    (password.pc \notin {"none", "call"}
       /\ 4 <= password.min_len /\ password.min_len < password.max_length) =>
        /\ password.pc = "returned"
        /\ password.exc = NoExc /\ password.failed = 0
        /\ password.min_len <= Len(password.pwd)
        /\ Len(password.pwd) < password.max_length
        /\ \A class \in chars : Has(class)

====
